---- MODULE Spec2Model ----
(***************************************************************************)
(* FRC 2026 REBUILT match simulation: the match engine (match_engine.py),  *)
(* the field ledger (field.py) and the robot behaviour engine (robot.py).  *)
(*                                                                         *)
(* Units.  All times are counted in ticks of TICK_INTERVAL (0.5 s): the    *)
(* code only ever compares a float timer with 0 after subtracting 0.5 per  *)
(* tick, so a timer of T seconds expires after ceil(2T) ticks.  Rates are  *)
(* in tenths of a unit per second, accuracies in thousandths, cycle times  *)
(* in milliseconds.  Pseudo-random draws are nondeterministic              *)
(* choices; `luck` bounds how many draws of one run leave their nominal    *)
(* outcome.                                                                *)
(***************************************************************************)
EXTENDS Integers, Sequences, FiniteSets, TLC

VARIABLES
    pc,            \* position of MatchEngine.run() / of the ledger driver
    match_state,   \* MatchState record (models.py)
    field,         \* FieldState record owned by FieldManager
    eng,           \* MatchEngine's own attributes
    robots,        \* robot id -> Robot object (RobotState + internals)
    config,        \* robot id -> RobotConfig
    hp_mode,       \* alliance -> HumanPlayerMode
    luck,          \* draws of the random streams still free to deviate
    call           \* log of the last step: the call made, what it returned,
                   \* and what the tick's ledger tick released

vars == <<pc, match_state, field, eng, robots, config, hp_mode, luck, call>>

-----------------------------------------------------------------------------
(* Bounds of the model *)

MaxLuck == 1
MaxCalls == 4
MaxFieldTime == 7

-----------------------------------------------------------------------------
(* config.py, in model units *)

TICK_INTERVAL == 1
AUTO_DURATION == 40
TRANSITION_DURATION == 20
SHIFT_DURATION == 50
ENDGAME_DURATION == 60
TOTAL_MATCH_DURATION == 320
FUEL_ACTIVE_HUB_POINTS == 1
TOWER_L1_AUTO_POINTS == 15
TOWER_L1_TELEOP_POINTS == 10
TOWER_L2_POINTS == 20
TOWER_L3_POINTS == 30
FOUL_POINTS == 5
RP_WIN == 3
RP_TIE == 1
RP_ENERGIZED_THRESHOLD == 100
RP_SUPERCHARGED_THRESHOLD == 360
RP_TRAVERSAL_THRESHOLD == 50
HP_THROW_INTERVAL == 8
HP_FEED_INTERVAL == 5
INITIAL_NEUTRAL_FUEL == 20
INITIAL_OUTPOST_FUEL == 10
INITIAL_PRELOAD_FUEL == 10
TOTAL_FUEL == 60
FUEL_HUB_TRANSIT_TIME == 3
FUEL_MISS_RECOVERY_TIME == 6
MAX_TOWER_OCCUPANTS == 3
AUTO_PRELOAD_MAX == 8
FIXED_ALIGN_TIME == 3
TURRET_ALIGN_TIME == 0
JAM_CLEAR_TIME == 7
AUTO_L1_CLIMB_TIME == 8
AUTO_L1_DESCEND_TIME == 6
PUSH_FUEL_PER_TRIP == 5
PUSH_TRIP_TIME == 14
PREPOSITION_TIME_FROM_NEUTRAL == 5
PREPOSITION_TIME_FROM_OUTPOST == 6
CROSSFIELD_DRIVE_TIME == 10

Min(a, b) == IF a <= b THEN a ELSE b
Max(a, b) == IF a >= b THEN a ELSE b
CeilDiv(a, b) == (a + b - 1) \div b

Alliances == {"red", "blue"}
AllRobots == <<"red_0", "red_1", "red_2", "blue_0", "blue_1", "blue_2">>
RobotIds == {AllRobots[i] : i \in 1..6}
RedRobots == <<"red_0", "red_1", "red_2">>
BlueRobots == <<"blue_0", "blue_1", "blue_2">>
AllianceOf(id) == IF id \in {"red_0", "red_1", "red_2"} THEN "red" ELSE "blue"

-----------------------------------------------------------------------------
(* match_engine.py: phase schedule *)

\* _PHASE_BOUNDARIES / _get_phase: time_remaining in ticks
get_phase(time_remaining) ==
    IF 280 <= time_remaining /\ time_remaining < 320 THEN "auto"
    ELSE IF 260 <= time_remaining /\ time_remaining < 280 THEN "transition"
    ELSE IF 210 <= time_remaining /\ time_remaining < 260 THEN "shift1"
    ELSE IF 160 <= time_remaining /\ time_remaining < 210 THEN "shift2"
    ELSE IF 110 <= time_remaining /\ time_remaining < 160 THEN "shift3"
    ELSE IF 60 <= time_remaining /\ time_remaining < 110 THEN "shift4"
    ELSE IF 0 <= time_remaining /\ time_remaining < 60 THEN "endgame"
    ELSE IF time_remaining >= 320 THEN "auto"
    ELSE "endgame"

Shifts == {"shift1", "shift2", "shift3", "shift4"}

-----------------------------------------------------------------------------
(* field.py: FieldManager.  Each operation maps a FieldState record to the  *)
(* record after the call; operations that return a value yield             *)
(* [f |-> state after, ret |-> returned value].                            *)

\* FieldManager.__init__
FieldManagerInit ==
    [neutral_fuel_available |-> INITIAL_NEUTRAL_FUEL,
     red_outpost_fuel       |-> INITIAL_OUTPOST_FUEL,
     blue_outpost_fuel      |-> INITIAL_OUTPOST_FUEL,
     fuel_in_flight         |-> 0,
     fuel_in_transit        |-> 0,
     transit_queue          |-> << >>,
     red_tower_occupants    |-> << >>,
     blue_tower_occupants   |-> << >>,
     congestion_red_hub     |-> 0,
     congestion_blue_hub    |-> 0]

RECURSIVE SumCounts(_)
SumCounts(q) == IF q = << >> THEN 0 ELSE Head(q)[2] + SumCounts(Tail(q))

\* entries of q (in order) that satisfy / do not satisfy return_time <= t
RECURSIVE Matured(_, _)
Matured(q, t) ==
    IF q = << >> THEN << >>
    ELSE IF Head(q)[1] <= t THEN <<Head(q)>> \o Matured(Tail(q), t)
    ELSE Matured(Tail(q), t)

RECURSIVE StillPending(_, _)
StillPending(q, t) ==
    IF q = << >> THEN << >>
    ELSE IF Head(q)[1] <= t THEN StillPending(Tail(q), t)
    ELSE <<Head(q)>> \o StillPending(Tail(q), t)

\* fault: an entry is released only once its return time has passed
process_transit_queue_late(f, current_time) ==
    LET arrived == SumCounts(Matured(f.transit_queue, current_time - 1))
    IN  [f EXCEPT !.neutral_fuel_available = @ + arrived,
                  !.fuel_in_transit = @ - arrived,
                  !.transit_queue = StillPending(f.transit_queue, current_time - 1)]

\* FieldManager._process_transit_queue
process_transit_queue(f, current_time) ==
    LET arrived == SumCounts(Matured(f.transit_queue, current_time))
    IN  [f EXCEPT !.neutral_fuel_available = @ + arrived,
                  !.fuel_in_transit = @ - arrived,
                  !.transit_queue = StillPending(f.transit_queue, current_time)]

\* FieldManager._update_congestion: congestion in halves, min(1, max(0, n-1)/2)
update_congestion(f, rs) ==
    LET red_at_hub == Cardinality({id \in RobotIds :
                          rs[id].position = "hub" /\ AllianceOf(id) = "red"})
        blue_at_hub == Cardinality({id \in RobotIds :
                          rs[id].position = "hub" /\ AllianceOf(id) = "blue"})
    IN  [f EXCEPT !.congestion_red_hub = Min(2, Max(0, red_at_hub - 1)),
                  !.congestion_blue_hub = Min(2, Max(0, blue_at_hub - 1))]

\* FieldManager.tick
field_tick(f, current_time, rs) ==
    update_congestion(process_transit_queue(f, current_time), rs)

\* FieldManager.fuel_shot
fuel_shot(f, count) ==
    IF count <= 0 THEN f
    ELSE [f EXCEPT !.fuel_in_flight = @ + count]

\* FieldManager.fuel_scored
fuel_scored(f, alliance, count, current_time) ==
    IF count <= 0 THEN f
    ELSE [f EXCEPT !.fuel_in_flight = @ - count,
                   !.fuel_in_transit = @ + count,
                   !.transit_queue =
                       Append(@, <<current_time + FUEL_HUB_TRANSIT_TIME, count>>)]

\* fault: missed fuel is counted as in transit but never queued for return
fuel_missed_unqueued(f, count, current_time) ==
    IF count <= 0 THEN f
    ELSE [f EXCEPT !.fuel_in_flight = @ - count,
                   !.fuel_in_transit = @ + count]

\* FieldManager.fuel_missed
fuel_missed(f, count, current_time) ==
    IF count <= 0 THEN f
    ELSE [f EXCEPT !.fuel_in_flight = @ - count,
                   !.fuel_in_transit = @ + count,
                   !.transit_queue =
                       Append(@, <<current_time + FUEL_MISS_RECOVERY_TIME, count>>)]

\* fault: an intake that trusts the request and never looks at the pool
try_intake_unchecked(f, alliance, zone, amount) ==
    IF amount <= 0 THEN [f |-> f, ret |-> 0]
    ELSE IF zone = "outpost" /\ alliance = "red" THEN
        [f |-> [f EXCEPT !.red_outpost_fuel = @ - amount], ret |-> amount]
    ELSE IF zone = "outpost" THEN
        [f |-> [f EXCEPT !.blue_outpost_fuel = @ - amount], ret |-> amount]
    ELSE
        [f |-> [f EXCEPT !.neutral_fuel_available = @ - amount], ret |-> amount]

\* FieldManager.try_intake
try_intake(f, alliance, zone, amount) ==
    IF amount <= 0 THEN [f |-> f, ret |-> 0]
    ELSE IF zone \in {"neutral", "alliance", "midfield"} THEN
        LET actual == Min(amount, f.neutral_fuel_available)
        IN  [f |-> [f EXCEPT !.neutral_fuel_available = @ - actual], ret |-> actual]
    ELSE IF zone = "outpost" THEN
        IF alliance = "red" THEN
            LET actual == Min(amount, f.red_outpost_fuel)
            IN  [f |-> [f EXCEPT !.red_outpost_fuel = @ - actual], ret |-> actual]
        ELSE
            LET actual == Min(amount, f.blue_outpost_fuel)
            IN  [f |-> [f EXCEPT !.blue_outpost_fuel = @ - actual], ret |-> actual]
    ELSE
        LET actual == Min(amount, f.neutral_fuel_available)
        IN  [f |-> [f EXCEPT !.neutral_fuel_available = @ - actual], ret |-> actual]

\* PUSH_SCATTER_RATE in hundredths
PUSH_SCATTER_RATE == 20

\* FieldManager.push_fuel: the ledger after the call, the returned value
\* and the locals actual_moved and scattered (0 on the early returns, which
\* move nothing); scattered is floor(actual_moved * PUSH_SCATTER_RATE)
push_fuel(f, from_zone, to_zone, amount) ==
    IF amount <= 0 THEN [f |-> f, ret |-> 0, actual_moved |-> 0, scattered |-> 0]
    ELSE IF from_zone \notin {"neutral", "outpost"}
    THEN [f |-> f, ret |-> 0, actual_moved |-> 0, scattered |-> 0]
    ELSE
        LET actual_moved == Min(amount, f.neutral_fuel_available)
            scattered == (actual_moved * PUSH_SCATTER_RATE) \div 100
            arrived == actual_moved - scattered
        IN  IF actual_moved <= 0
            THEN [f |-> [f EXCEPT !.neutral_fuel_available = @ - actual_moved],
                  ret |-> 0, actual_moved |-> actual_moved, scattered |-> 0]
            ELSE [f |-> [f EXCEPT !.neutral_fuel_available =
                                      @ - actual_moved + scattered + arrived],
                  ret |-> arrived, actual_moved |-> actual_moved,
                  scattered |-> scattered]

\* FieldManager.hp_throw
hp_throw(f, alliance, current_time) ==
    IF alliance = "red" THEN
        IF f.red_outpost_fuel <= 0 THEN f
        ELSE [f EXCEPT !.red_outpost_fuel = @ - 1, !.fuel_in_flight = @ + 1]
    ELSE
        IF f.blue_outpost_fuel <= 0 THEN f
        ELSE [f EXCEPT !.blue_outpost_fuel = @ - 1, !.fuel_in_flight = @ + 1]

\* FieldManager.hp_feed
hp_feed(f, alliance) ==
    IF alliance = "red" THEN
        IF f.red_outpost_fuel <= 0 THEN [f |-> f, ret |-> FALSE]
        ELSE [f |-> [f EXCEPT !.red_outpost_fuel = @ - 1], ret |-> TRUE]
    ELSE
        IF f.blue_outpost_fuel <= 0 THEN [f |-> f, ret |-> FALSE]
        ELSE [f |-> [f EXCEPT !.blue_outpost_fuel = @ - 1], ret |-> TRUE]

InSeq(x, s) == \E i \in 1..Len(s) : s[i] = x

\* FieldManager.can_climb
can_climb(f, alliance, robot_id) ==
    LET occupants == IF alliance = "red" THEN f.red_tower_occupants
                     ELSE f.blue_tower_occupants
    IN  IF InSeq(robot_id, occupants) THEN TRUE
        ELSE Len(occupants) < MAX_TOWER_OCCUPANTS

\* fault: the robot is appended whether or not it is already on the tower
register_climb_always(f, alliance, robot_id) ==
    IF alliance = "red" THEN
        [f EXCEPT !.red_tower_occupants = Append(@, robot_id)]
    ELSE
        [f EXCEPT !.blue_tower_occupants = Append(@, robot_id)]

\* FieldManager.register_climb
register_climb(f, alliance, robot_id) ==
    IF alliance = "red" THEN
        IF InSeq(robot_id, f.red_tower_occupants) THEN f
        ELSE [f EXCEPT !.red_tower_occupants = Append(@, robot_id)]
    ELSE
        IF InSeq(robot_id, f.blue_tower_occupants) THEN f
        ELSE [f EXCEPT !.blue_tower_occupants = Append(@, robot_id)]

\* FieldState.total_fuel_check
total_fuel_check(f, rs) ==
    LET held(id) == rs[id].fuel_held + rs[id].fuel_being_pushed
    IN  f.neutral_fuel_available + f.red_outpost_fuel + f.blue_outpost_fuel
        + f.fuel_in_flight + f.fuel_in_transit
        + held("red_0") + held("red_1") + held("red_2")
        + held("blue_0") + held("blue_1") + held("blue_2")

\* FieldManager.assert_conservation: TRUE when the assertion passes, FALSE
\* when it raises AssertionError
assert_conservation(f, rs) == total_fuel_check(f, rs) = TOTAL_FUEL

-----------------------------------------------------------------------------
(* config.py: ARCHETYPE_DEFAULTS, INDEXER_RATES, INDEXER_JAM_RATES *)

ARCHETYPE_DEFAULTS ==
    [elite_turret |->
        [storage_capacity |-> 14, cycle_time_mean |-> 8500, auto_fuel |-> 8,
         auto_cycles |-> 1, climb_level |-> 3, accuracy |-> 900,
         climb_success |-> <<990, 950, 850>>,
         shooter_type |-> "single_turret", indexer_type |-> "spindexer",
         intake_rate |-> 80, shoot_rate |-> 100,
         intake_quality |-> "touch_and_go", climb_start_time |-> 24],
     elite_multishot |->
        [storage_capacity |-> 20, cycle_time_mean |-> 12000, auto_fuel |-> 8,
         auto_cycles |-> 1, climb_level |-> 3, accuracy |-> 775,
         climb_success |-> <<990, 900, 750>>,
         shooter_type |-> "triple_fixed", indexer_type |-> "serializer",
         intake_rate |-> 80, shoot_rate |-> 150,
         intake_quality |-> "touch_and_go", climb_start_time |-> 24],
     strong_scorer |->
        [storage_capacity |-> 14, cycle_time_mean |-> 14000, auto_fuel |-> 6,
         auto_cycles |-> 1, climb_level |-> 2, accuracy |-> 725,
         climb_success |-> <<980, 850, 550>>,
         shooter_type |-> "double_fixed", indexer_type |-> "conveyor",
         intake_rate |-> 60, shoot_rate |-> 80,
         intake_quality |-> "touch_and_go", climb_start_time |-> 16],
     everybot |->
        [storage_capacity |-> 10, cycle_time_mean |-> 18500, auto_fuel |-> 4,
         auto_cycles |-> 1, climb_level |-> 2, accuracy |-> 575,
         climb_success |-> <<950, 700, 250>>,
         shooter_type |-> "single_fixed", indexer_type |-> "conveyor",
         intake_rate |-> 40, shoot_rate |-> 60,
         intake_quality |-> "slow_pickup", climb_start_time |-> 16],
     kitbot_plus |->
        [storage_capacity |-> 20, cycle_time_mean |-> 24000, auto_fuel |-> 3,
         auto_cycles |-> 1, climb_level |-> 1, accuracy |-> 475,
         climb_success |-> <<800, 300, 0>>,
         shooter_type |-> "single_fixed", indexer_type |-> "gravity_fed",
         intake_rate |-> 30, shoot_rate |-> 40,
         intake_quality |-> "slow_pickup", climb_start_time |-> 10],
     kitbot_base |->
        [storage_capacity |-> 15, cycle_time_mean |-> 30000, auto_fuel |-> 1,
         auto_cycles |-> 1, climb_level |-> 0, accuracy |-> 375,
         climb_success |-> <<0, 0, 0>>,
         shooter_type |-> "single_fixed", indexer_type |-> "gravity_fed",
         intake_rate |-> 20, shoot_rate |-> 30,
         intake_quality |-> "push_around", climb_start_time |-> 0],
     defense_bot |->
        [storage_capacity |-> 2, cycle_time_mean |-> 0, auto_fuel |-> 0,
         auto_cycles |-> 0, climb_level |-> 1, accuracy |-> 275,
         climb_success |-> <<750, 100, 0>>,
         shooter_type |-> "none", indexer_type |-> "none",
         intake_rate |-> 0, shoot_rate |-> 0,
         intake_quality |-> "no_ground_pickup", climb_start_time |-> 10]]

INDEXER_RATES ==
    [spindexer |-> 100, serializer |-> 80, conveyor |-> 60,
     gravity_fed |-> 150, none |-> 0]

\* INDEXER_JAM_RATES, in thousandths
INDEXER_JAM_RATES ==
    [spindexer |-> 5, serializer |-> 5, conveyor |-> 10,
     gravity_fed |-> 75, none |-> 0]

SHOOT_RATE_SINGLE == 30
SHOOT_RATE_DOUBLE == 65
SHOOT_RATE_TRIPLE == 90
SHOOT_RATE_DUMPER == 150
TURRET_STUCK_ACCURACY_PENALTY == 200

\* robot.py _shoot_rate_for_type
shoot_rate_for_type(shooter_type) ==
    CASE shooter_type \in {"single_turret", "single_fixed"} -> SHOOT_RATE_SINGLE
      [] shooter_type = "double_fixed" -> SHOOT_RATE_DOUBLE
      [] shooter_type = "triple_fixed" -> SHOOT_RATE_TRIPLE
      [] shooter_type = "dumper" -> SHOOT_RATE_DUMPER
      [] shooter_type = "none" -> 0
      [] OTHER -> SHOOT_RATE_SINGLE

\* robot.py _align_time_for_shooter
align_time_for_shooter(shooter_type, turret_status) ==
    IF shooter_type = "single_turret" THEN
        IF turret_status = "stuck" THEN FIXED_ALIGN_TIME ELSE TURRET_ALIGN_TIME
    ELSE IF shooter_type = "dumper" THEN 0
    ELSE FIXED_ALIGN_TIME

-----------------------------------------------------------------------------
(* strategy.py: configuration records handed to the match engine *)

\* create_robot_config: RobotConfig from ARCHETYPE_DEFAULTS (the fields the
\* match reads)
create_robot_config(archetype_name) ==
    LET d == ARCHETYPE_DEFAULTS[archetype_name]
    IN  [archetype |-> archetype_name,
         shooter_type |-> d.shooter_type,
         indexer_type |-> d.indexer_type,
         storage_capacity |-> d.storage_capacity,
         intake_rate |-> d.intake_rate,
         shoot_rate |-> d.shoot_rate,
         intake_quality |-> d.intake_quality,
         auto_fuel_target |-> d.auto_fuel,
         auto_action |-> "score_fuel",
         auto_cycles |-> d.auto_cycles,
         climb_target |-> d.climb_level,
         climb_start_time |-> d.climb_start_time,
         active_shift_role |-> "score",
         inactive_shift_role |-> "stockpile",
         defense_target |-> "",
         preposition_before_shift |-> TRUE]

\* _apply_2_score_1_defend / _apply_1_score_2_defend: the full-time defender
DefenderConfig(cfg) ==
    [cfg EXCEPT !.active_shift_role = "defend",
                !.inactive_shift_role = "defend",
                !.defense_target = "opponent_0",
                !.preposition_before_shift = FALSE]

-----------------------------------------------------------------------------
(* robot.py: Robot *)

\* Robot.__init__
RobotNew(id, cfg) ==
    LET arch == ARCHETYPE_DEFAULTS[cfg.archetype]
    IN  [position |-> "alliance",
         fuel_held |-> 0,
         fuel_being_pushed |-> 0,
         is_stockpiling |-> FALSE,
         is_climbing |-> FALSE,
         climb_level |-> 0,
         is_defending |-> FALSE,
         is_pushing_fuel |-> FALSE,
         current_action |-> "idle",
         action_timer |-> 0,
         shift_role |-> "scorer",
         intake_status |-> "nominal",
         shooter_status |-> "nominal",
         turret_status |-> "nominal",
         fouls_drawn_this_match |-> 0,
         cycle_time_mean |-> arch.cycle_time_mean,
         accuracy |-> arch.accuracy,
         shoot_rate |-> IF cfg.shoot_rate > 0
                        THEN Min(cfg.shoot_rate, INDEXER_RATES[cfg.indexer_type])
                        ELSE shoot_rate_for_type(cfg.shooter_type),
         effective_shooter |-> cfg.shooter_type,
         failures_checked |-> FALSE,
         auto_fuel_scored |-> 0,
         auto_cycles_completed |-> 0,
         auto_climb_attempted |-> FALSE,
         auto_climb_scored |-> FALSE,
         auto_shooting_started |-> FALSE,
         auto_descending |-> FALSE,
         stockpile_ready |-> FALSE,
         cycle_phase |-> "idle",
         cycle_total_time |-> 0,
         defense_foul_checked_this_shift |-> FALSE,
         current_shift_phase |-> "none",
         climb_attempted_teleop |-> FALSE]

\* fault: a draw taken from an unseeded generator, free to come out
\* differently in every run
Draw_unseeded(S, d, l) == {<<v, l>> : v \in S \cup {d}}

\* One pseudo-random draw with nominal outcome d among the outcomes S: the
\* set of <<outcome, luck left>>.
Draw(S, d, l) ==
    {<<d, l>>} \cup (IF l > 0 THEN {<<v, l - 1>> : v \in S \ {d}} ELSE {})

\* uniform(a, b) seconds as a timer: the tick counts of the open interval
UniformTicks(lo, hi) == lo..hi

\* The result of a step of a robot: the robot, the ledger and the luck left.
Out(r, f, l) == [r |-> r, f |-> f, l |-> l]

\* Robot._get_effective_intake_quality
get_effective_intake_quality(c, r) ==
    IF r.intake_status = "broken" THEN "no_ground_pickup"
    ELSE IF r.intake_status = "degraded" THEN
        IF c.intake_quality = "touch_and_go" THEN "slow_pickup"
        ELSE IF c.intake_quality = "slow_pickup" THEN "push_around"
        ELSE c.intake_quality
    ELSE c.intake_quality

\* Robot._check_intake_failure: breakdown roll, then degradation roll
check_intake_failure(c, r, l) ==
    {<<[r EXCEPT !.intake_status = o[1]], o[2]>> :
        o \in Draw({"nominal", "broken", "degraded"}, "nominal", l)}

\* Robot._check_shooter_failure
check_shooter_failure(c, r, l) ==
    IF c.shooter_type = "none" THEN {<<r, l>>}
    ELSE {<<IF o[1]
            THEN [r EXCEPT !.shooter_status = "degraded",
                           !.shoot_rate =
                               IF c.shooter_type = "triple_fixed" THEN SHOOT_RATE_DOUBLE
                               ELSE IF c.shooter_type = "double_fixed" THEN SHOOT_RATE_SINGLE
                               ELSE @]
            ELSE r, o[2]>> : o \in Draw(BOOLEAN, FALSE, l)}

\* Robot._check_turret_failure
check_turret_failure(c, r, l) ==
    IF c.shooter_type # "single_turret" THEN {<<r, l>>}
    ELSE {<<IF o[1]
            THEN [r EXCEPT !.turret_status = "stuck",
                           !.effective_shooter = "single_fixed",
                           !.accuracy = Max(0, @ - TURRET_STUCK_ACCURACY_PENALTY)]
            ELSE r, o[2]>> : o \in Draw(BOOLEAN, FALSE, l)}

\* Robot.check_failures
check_failures(c, r, l) ==
    UNION {UNION {check_turret_failure(c, b[1], b[2]) :
                    b \in check_shooter_failure(c, a[1], a[2])} :
              a \in check_intake_failure(c, r, l)}

\* Robot._start_scoring_cycle / _start_drive_to_fuel: the cycle time is
\* max(mean * 0.5, gauss(mean, stddev)); drive to fuel takes 25% of it
start_scoring_cycle(c, r, l) ==
    {<<[r EXCEPT !.cycle_total_time = o[1],
                 !.current_action = "driving",
                 !.position = "neutral",
                 !.action_timer = CeilDiv(o[1], 2000),
                 !.cycle_phase = "drive_to_fuel"], o[2]>> :
        o \in Draw({r.cycle_time_mean, r.cycle_time_mean \div 2},
                   r.cycle_time_mean, l)}

\* Robot._begin_shooting
begin_shooting(c, r, l) ==
    IF r.fuel_held <= 0 THEN
        {<<[r EXCEPT !.current_action = "idle", !.cycle_phase = "idle"], l>>}
    ELSE
        LET shot ==
                IF r.shoot_rate <= 0 THEN
                    [r EXCEPT !.current_action = "idle", !.cycle_phase = "idle"]
                ELSE
                    [r EXCEPT !.current_action = "shooting",
                              !.action_timer =
                                  IF r.shooter_status = "degraded"
                                  THEN CeilDiv(2000 * r.fuel_held, 67 * r.shoot_rate)
                                  ELSE CeilDiv(20 * r.fuel_held, r.shoot_rate),
                              !.cycle_phase = "shooting"]
            jammed == [r EXCEPT !.current_action = "clearing_jam",
                                !.action_timer = JAM_CLEAR_TIME,
                                !.cycle_phase = "shooting"]
        IN  IF INDEXER_JAM_RATES[c.indexer_type] > 0
            THEN {<<IF o[1] THEN jammed ELSE shot, o[2]>> : o \in Draw(BOOLEAN, FALSE, l)}
            ELSE {<<shot, l>>}

\* Robot._begin_align
begin_align(c, r, l) ==
    LET align_time == align_time_for_shooter(r.effective_shooter, r.turret_status)
    IN  IF align_time > 0 THEN
            {<<[r EXCEPT !.current_action = "driving",
                         !.action_timer = align_time,
                         !.cycle_phase = "aligning"], l>>}
        ELSE begin_shooting(c, r, l)

\* Robot._begin_drive_to_hub: 20% of the cycle time
begin_drive_to_hub(r) ==
    [r EXCEPT !.current_action = "driving",
              !.position = "hub",
              !.action_timer = CeilDiv(r.cycle_total_time, 2500),
              !.cycle_phase = "drive_to_hub"]

\* The pickup loop of _begin_intake / _stockpile_intake: n successful
\* Bernoulli trials, each followed by try_intake(alliance, zone, 1); the
\* loop breaks at the first call that returns 0.
RECURSIVE IntakeLoop(_, _, _, _)
IntakeLoop(f, alliance, zone, n) ==
    IF n <= 0 THEN [f |-> f, ret |-> 0]
    ELSE LET got == try_intake(f, alliance, zone, 1)
         IN  IF got.ret > 0
             THEN LET rest == IntakeLoop(got.f, alliance, zone, n - 1)
                  IN  [f |-> rest.f, ret |-> got.ret + rest.ret]
             ELSE [f |-> got.f, ret |-> 0]

\* numbers of successful pickup trials the model draws
PickupSuccesses(fuel_needed) == {0, fuel_needed - 1, fuel_needed}

\* timer of an intake of `picked` units at the robot's intake rate
IntakeTicks(c, r, picked) ==
    LET effective_rate == IF r.intake_status = "degraded"
                          THEN c.intake_rate ELSE 2 * c.intake_rate
    IN  IF effective_rate > 0 /\ picked > 0
        THEN Max(CeilDiv(40 * picked, effective_rate), TICK_INTERVAL)
        ELSE TICK_INTERVAL

\* Robot._begin_intake
begin_intake(id, c, r, f, l) ==
    LET fuel_needed == c.storage_capacity - r.fuel_held
    IN  IF get_effective_intake_quality(c, r) = "no_ground_pickup" THEN
            {Out([r EXCEPT !.current_action = "driving",
                           !.position = "outpost",
                           !.action_timer = 4,
                           !.cycle_phase = "drive_to_outpost"], f, l)}
        ELSE IF fuel_needed <= 0 THEN {Out(begin_drive_to_hub(r), f, l)}
        ELSE
            {LET got == IntakeLoop(f, AllianceOf(id), r.position, o[1])
             IN  Out([r EXCEPT !.fuel_held = @ + got.ret,
                               !.current_action = "intaking",
                               !.action_timer = IntakeTicks(c, r, got.ret),
                               !.cycle_phase = "intaking"], got.f, o[2]) :
                o \in Draw(PickupSuccesses(fuel_needed), fuel_needed, l)}

\* Robot._finish_shooting
finish_shooting(r) ==
    [r EXCEPT !.fuel_held = 0,
              !.current_action = "idle",
              !.position = "hub",
              !.cycle_phase = "idle"]

\* Robot._finish_dumping
finish_dumping(r) ==
    [r EXCEPT !.fuel_held = 0,
              !.current_action = "idle",
              !.is_stockpiling = FALSE,
              !.stockpile_ready = FALSE,
              !.cycle_phase = "idle"]

\* Robot._on_scoring_action_complete
on_scoring_action_complete(id, c, r, f, l) ==
    CASE r.cycle_phase = "drive_to_fuel" -> begin_intake(id, c, r, f, l)
      [] r.cycle_phase = "intaking" -> {Out(begin_drive_to_hub(r), f, l)}
      [] r.cycle_phase = "drive_to_hub" ->
            {Out(o[1], f, o[2]) : o \in begin_align(c, r, l)}
      [] r.cycle_phase = "aligning" ->
            {Out(o[1], f, o[2]) : o \in begin_shooting(c, r, l)}
      [] r.cycle_phase = "shooting" -> {Out(finish_shooting(r), f, l)}
      [] r.cycle_phase = "dumping" -> {Out(finish_dumping(r), f, l)}
      [] OTHER -> {Out(r, f, l)}

\* Robot._tick_scoring
tick_scoring(id, c, r, f, l) ==
    IF r.action_timer > 0 THEN
        LET r1 == [r EXCEPT !.action_timer = @ - TICK_INTERVAL]
        IN  IF r1.action_timer > 0 THEN {Out(r1, f, l)}
            ELSE on_scoring_action_complete(id, c, r1, f, l)
    ELSE IF r.current_action = "idle" THEN
        IF r.effective_shooter = "none" THEN {Out(r, f, l)}
        ELSE {Out(o[1], f, o[2]) : o \in start_scoring_cycle(c, r, l)}
    ELSE {Out(r, f, l)}

\* Robot.dump_stockpile: fuel_held * DUMP_TIME_PER_FUEL (0.3 s)
dump_stockpile(r) ==
    IF r.fuel_held <= 0 THEN r
    ELSE [r EXCEPT !.current_action = "dumping",
                   !.action_timer = CeilDiv(6 * r.fuel_held, 10),
                   !.is_stockpiling = FALSE,
                   !.stockpile_ready = FALSE,
                   !.cycle_phase = "dumping"]

\* Robot._start_preposition
start_preposition(r) ==
    LET time_needed ==
            CASE r.position = "hub" -> 0
              [] r.position = "outpost" -> PREPOSITION_TIME_FROM_OUTPOST
              [] r.position = "opponent_zone" -> CROSSFIELD_DRIVE_TIME
              [] OTHER -> PREPOSITION_TIME_FROM_NEUTRAL
    IN  IF time_needed <= 0 THEN
            [r EXCEPT !.current_action = "idle",
                      !.position = "hub",
                      !.is_stockpiling = TRUE,
                      !.stockpile_ready = TRUE,
                      !.cycle_phase = "idle"]
        ELSE
            [r EXCEPT !.current_action = "pre_positioning",
                      !.action_timer = time_needed,
                      !.cycle_phase = "pre_positioning"]

\* Robot._start_stockpile_cycle: drive_time = uniform(2.0, 3.5) s
start_stockpile_cycle(c, r, l) ==
    IF r.fuel_held >= c.storage_capacity THEN {<<start_preposition(r), l>>}
    ELSE {<<[r EXCEPT !.current_action = "driving",
                      !.position = "neutral",
                      !.action_timer = o[1],
                      !.cycle_phase = "stockpile_drive"], o[2]>> :
            o \in Draw(UniformTicks(5, 7), 5, l)}

\* Robot._stockpile_intake
stockpile_intake(id, c, r, f, l) ==
    LET fuel_needed == c.storage_capacity - r.fuel_held
    IN  IF get_effective_intake_quality(c, r) = "no_ground_pickup" \/ fuel_needed <= 0
        THEN
            LET got == try_intake(f, AllianceOf(id), "outpost", fuel_needed)
            IN  {Out([r EXCEPT !.current_action = "stockpiling",
                               !.action_timer = HP_FEED_INTERVAL * fuel_needed,
                               !.position = "outpost",
                               !.fuel_held = @ + got.ret,
                               !.cycle_phase = "stockpile_intake"], got.f, l)}
        ELSE
            {LET got == IntakeLoop(f, AllianceOf(id), r.position, o[1])
             IN  Out([r EXCEPT !.fuel_held = @ + got.ret,
                               !.current_action = "stockpiling",
                               !.action_timer = IntakeTicks(c, r, got.ret),
                               !.cycle_phase = "stockpile_intake"], got.f, o[2]) :
                o \in Draw(PickupSuccesses(fuel_needed), fuel_needed, l)}

\* Robot._on_stockpile_action_complete
on_stockpile_action_complete(id, c, r, f, l) ==
    CASE r.cycle_phase = "stockpile_drive" -> stockpile_intake(id, c, r, f, l)
      [] r.cycle_phase = "stockpile_intake" ->
            IF c.preposition_before_shift THEN {Out(start_preposition(r), f, l)}
            ELSE {Out([r EXCEPT !.current_action = "idle",
                                !.is_stockpiling = TRUE,
                                !.stockpile_ready = TRUE,
                                !.cycle_phase = "idle"], f, l)}
      [] r.cycle_phase = "pre_positioning" ->
            {Out([r EXCEPT !.current_action = "idle",
                           !.position = "hub",
                           !.is_stockpiling = TRUE,
                           !.stockpile_ready = TRUE,
                           !.cycle_phase = "idle"], f, l)}
      [] OTHER -> {Out(r, f, l)}

\* Robot._tick_stockpiling
tick_stockpiling(id, c, r, f, l) ==
    IF r.action_timer > 0 THEN
        LET r1 == [r EXCEPT !.action_timer = @ - TICK_INTERVAL]
        IN  IF r1.action_timer > 0 THEN {Out(r1, f, l)}
            ELSE on_stockpile_action_complete(id, c, r1, f, l)
    ELSE IF r.current_action = "idle" THEN
        IF r.stockpile_ready THEN {Out(r, f, l)}
        ELSE {Out(o[1], f, o[2]) : o \in start_stockpile_cycle(c, r, l)}
    ELSE {Out(r, f, l)}

\* Robot._start_defense
start_defense(r) ==
    IF r.position = "opponent_zone" THEN
        [r EXCEPT !.current_action = "defending",
                  !.is_defending = TRUE,
                  !.action_timer = 0,
                  !.cycle_phase = "defending"]
    ELSE
        [r EXCEPT !.current_action = "driving",
                  !.action_timer = CROSSFIELD_DRIVE_TIME,
                  !.cycle_phase = "defense_drive"]

\* Robot._check_defense_fouls: a foul trial and a technical-foul trial,
\* the two outcomes of one check drawn together
check_defense_fouls(r, l) ==
    {<<[r EXCEPT !.fouls_drawn_this_match =
            @ + (IF o[1][1] THEN 1 ELSE 0) + (IF o[1][2] THEN 1 ELSE 0)], o[2]>> :
        o \in Draw(BOOLEAN \X BOOLEAN, <<FALSE, FALSE>>, l)}

\* fault: the foul rolls are taken in every defending tick, not once a shift
tick_defending_every_tick(r, l) ==
    IF r.action_timer > 0 THEN
        LET r1 == [r EXCEPT !.action_timer = @ - TICK_INTERVAL]
        IN  IF r1.action_timer <= 0 /\ r1.cycle_phase = "defense_drive"
            THEN {<<[r1 EXCEPT !.current_action = "defending",
                               !.position = "opponent_zone",
                               !.is_defending = TRUE,
                               !.cycle_phase = "defending"], l>>}
            ELSE {<<r1, l>>}
    ELSE check_defense_fouls([r EXCEPT !.defense_foul_checked_this_shift = TRUE], l)

\* Robot._tick_defending
tick_defending(r, l) ==
    IF r.action_timer > 0 THEN
        LET r1 == [r EXCEPT !.action_timer = @ - TICK_INTERVAL]
        IN  IF r1.action_timer <= 0 /\ r1.cycle_phase = "defense_drive"
            THEN {<<[r1 EXCEPT !.current_action = "defending",
                               !.position = "opponent_zone",
                               !.is_defending = TRUE,
                               !.cycle_phase = "defending"], l>>}
            ELSE {<<r1, l>>}
    ELSE IF ~r.defense_foul_checked_this_shift THEN
        check_defense_fouls([r EXCEPT !.defense_foul_checked_this_shift = TRUE], l)
    ELSE {<<r, l>>}

\* Robot._start_push_cycle
start_push_cycle(r) ==
    [r EXCEPT !.current_action = "pushing_fuel",
              !.position = "neutral",
              !.is_pushing_fuel = TRUE,
              !.action_timer = PUSH_TRIP_TIME,
              !.cycle_phase = "pushing"]

\* Robot._complete_push_trip: the fuel taken from the neutral zone is handed
\* back only through return_fuel_to_field / add_fuel_to_alliance_zone, which
\* FieldManager does not define
complete_push_trip(id, r, f) ==
    LET pushed == try_intake(f, AllianceOf(id), "neutral", PUSH_FUEL_PER_TRIP)
    IN  Out([r EXCEPT !.fuel_being_pushed = 0,
                      !.current_action = "idle",
                      !.is_pushing_fuel = FALSE,
                      !.cycle_phase = "idle"], pushed.f, 0)

\* Robot._tick_pushing
tick_pushing(id, r, f, l) ==
    IF r.action_timer > 0 THEN
        LET r1 == [r EXCEPT !.action_timer = @ - TICK_INTERVAL]
        IN  IF r1.action_timer <= 0
            THEN LET o == complete_push_trip(id, r1, f) IN Out(o.r, o.f, l)
            ELSE Out(r1, f, l)
    ELSE IF r.current_action = "idle" THEN Out(start_push_cycle(r), f, l)
    ELSE Out(r, f, l)

\* ticks of uniform(0.8 * base_time, 1.2 * base_time) for base 3, 5, 7 s
ClimbTicks(target) ==
    CASE target = 2 -> {9, 12}
      [] target = 3 -> {12, 17}
      [] OTHER -> {5, 8}

\* Robot._start_climb
start_climb(c, r, l) ==
    IF c.climb_target <= 0 THEN {<<r, l>>}
    ELSE {<<[r EXCEPT !.climb_attempted_teleop = TRUE,
                      !.is_climbing = TRUE,
                      !.current_action = "climbing",
                      !.position = "tower",
                      !.action_timer = o[1],
                      !.cycle_phase = "climbing"], o[2]>> :
            o \in Draw(ClimbTicks(c.climb_target),
                       CHOOSE t \in ClimbTicks(c.climb_target) :
                           \A u \in ClimbTicks(c.climb_target) : t <= u, l)}

\* a Bernoulli trial of probability rate/1000: its outcomes, the likelier first
Bernoulli(rate, l) ==
    IF rate <= 0 THEN {<<FALSE, l>>}
    ELSE IF rate >= 1000 THEN {<<TRUE, l>>}
    ELSE Draw(BOOLEAN, TRUE, l)

\* Robot._resolve_climb
resolve_climb(c, r, l) ==
    LET target == c.climb_target
        rates == ARCHETYPE_DEFAULTS[c.archetype].climb_success
        rate_of(k) == IF k \in 1..3 THEN rates[k] ELSE 0
        done(x) == [x EXCEPT !.is_climbing = FALSE,
                             !.current_action = "idle",
                             !.cycle_phase = "idle"]
    IN  UNION {IF a[1] THEN {<<done([r EXCEPT !.climb_level = target]), a[2]>>}
               ELSE IF target >= 2
               THEN {<<done(IF b[1] THEN [r EXCEPT !.climb_level = target - 1] ELSE r),
                       b[2]>> : b \in Bernoulli(rate_of(target - 1), a[2])}
               ELSE {<<done(r), a[2]>>} :
                 a \in Bernoulli(rate_of(target), l)}

\* Robot._tick_endgame
tick_endgame(id, c, r, ms, f, l) ==
    IF r.is_climbing THEN
        IF r.action_timer > 0 THEN
            LET r1 == [r EXCEPT !.action_timer = @ - TICK_INTERVAL]
            IN  IF r1.action_timer <= 0
                THEN {Out(o[1], f, o[2]) : o \in resolve_climb(c, r1, l)}
                ELSE {Out(r1, f, l)}
        ELSE {Out(r, f, l)}
    ELSE IF /\ ~r.climb_attempted_teleop
            /\ c.climb_target > 0
            /\ c.climb_start_time > 0
            /\ ms.time_remaining <= c.climb_start_time
    THEN {Out(o[1], f, o[2]) : o \in start_climb(c, r, l)}
    ELSE tick_scoring(id, c, r, f, l)

\* Robot._tick_transition
tick_transition(r) ==
    [r EXCEPT !.current_action = "driving",
              !.position = "alliance",
              !.cycle_phase = "transition"]

\* Robot._tick_teleop_shift
tick_teleop_shift(id, c, r, f, l) ==
    CASE r.shift_role = "scorer" -> tick_scoring(id, c, r, f, l)
      [] r.shift_role = "stockpiler" -> tick_stockpiling(id, c, r, f, l)
      [] r.shift_role = "defender" ->
            {Out(o[1], f, o[2]) : o \in tick_defending(r, l)}
      [] r.shift_role = "pusher" -> {tick_pushing(id, r, f, l)}
      [] OTHER -> {Out(r, f, l)}

\* Robot._start_auto_shot_burst: align + fuel_held / max(shoot_rate, 0.1)
start_auto_shot_burst(r) ==
    IF r.fuel_held <= 0 THEN
        [r EXCEPT !.auto_cycles_completed = @ + 1,
                  !.current_action = "idle",
                  !.cycle_phase = "idle"]
    ELSE
        [r EXCEPT !.current_action = "shooting",
                  !.action_timer =
                      align_time_for_shooter(r.effective_shooter, r.turret_status)
                      + CeilDiv(20 * r.fuel_held, Max(r.shoot_rate, 1)),
                  !.cycle_phase = "auto_shoot"]

\* Robot._tick_auto_score
tick_auto_score(c, r, l) ==
    IF \/ r.auto_fuel_scored < c.auto_fuel_target
       \/ (r.auto_cycles_completed < c.auto_cycles /\ r.fuel_held > 0)
    THEN
        IF ~r.auto_shooting_started THEN
            {<<[r EXCEPT !.auto_shooting_started = TRUE,
                         !.current_action = "driving",
                         !.position = "hub",
                         !.action_timer = o[1],
                         !.cycle_phase = "auto_drive"], o[2]>> :
                o \in Draw(UniformTicks(3, 4), 3, l)}
        ELSE {<<start_auto_shot_burst(r), l>>}
    ELSE IF /\ r.auto_cycles_completed > 0
            /\ r.auto_cycles_completed < c.auto_cycles
            /\ r.fuel_held = 0
    THEN
        {<<[r EXCEPT !.current_action = "driving",
                     !.position = "neutral",
                     !.action_timer = o[1],
                     !.cycle_phase = "auto_drive_to_neutral"], o[2]>> :
            o \in Draw(UniformTicks(5, 6), 5, l)}
    ELSE {<<[r EXCEPT !.current_action = "idle", !.cycle_phase = "idle"], l>>}

\* Robot._tick_auto_climb
tick_auto_climb(r, l) ==
    IF r.auto_climb_scored /\ ~r.auto_descending THEN
        {<<[r EXCEPT !.current_action = "idle", !.cycle_phase = "idle"], l>>}
    ELSE IF ~r.auto_climb_attempted THEN
        {<<[r EXCEPT !.auto_climb_attempted = TRUE,
                     !.current_action = "driving",
                     !.position = "tower",
                     !.action_timer = o[1],
                     !.cycle_phase = "auto_climb_drive"], o[2]>> :
            o \in Draw(UniformTicks(4, 5), 4, l)}
    ELSE {<<[r EXCEPT !.current_action = "idle", !.cycle_phase = "idle"], l>>}

\* Robot._tick_auto_disrupt: as in _complete_push_trip, the fuel taken from
\* the neutral zone has no way back to the ledger
tick_auto_disrupt(id, r, f, l) ==
    IF r.cycle_phase = "idle" \/ r.cycle_phase = "" THEN
        {Out([r EXCEPT !.current_action = "driving",
                       !.position = "neutral",
                       !.action_timer = o[1],
                       !.cycle_phase = "auto_disrupt_drive"], f, o[2]) :
            o \in Draw(UniformTicks(4, 5), 4, l)}
    ELSE IF r.cycle_phase = "auto_disrupting" THEN
        LET pushed == try_intake(f, AllianceOf(id), "neutral", PUSH_FUEL_PER_TRIP)
        IN  {Out([r EXCEPT !.current_action = "pushing_fuel",
                           !.action_timer = TICK_INTERVAL,
                           !.cycle_phase = "auto_disrupting"], pushed.f, l)}
    ELSE {Out(r, f, l)}

\* Robot._complete_auto_action
complete_auto_action(id, c, r, f, l) ==
    CASE r.cycle_phase = "auto_drive" -> {Out(start_auto_shot_burst(r), f, l)}
      [] r.cycle_phase = "auto_shoot" ->
            {Out([r EXCEPT !.auto_fuel_scored = @ + r.fuel_held,
                           !.fuel_held = 0,
                           !.auto_cycles_completed = @ + 1,
                           !.auto_shooting_started = FALSE,
                           !.action_timer = 0,
                           !.current_action = "idle",
                           !.cycle_phase = "idle"], f, l)}
      [] r.cycle_phase = "auto_drive_to_neutral" ->
            LET fuel_needed == c.storage_capacity - r.fuel_held
                got == IF fuel_needed > 0
                       THEN try_intake(f, AllianceOf(id), "neutral", fuel_needed)
                       ELSE [f |-> f, ret |-> 0]
                held == r.fuel_held + got.ret
            IN  {Out([r EXCEPT !.fuel_held = held,
                               !.current_action = "intaking",
                               !.action_timer =
                                   IF c.intake_rate > 0 /\ held > 0
                                   THEN CeilDiv(20 * held, c.intake_rate)
                                   ELSE TICK_INTERVAL,
                               !.cycle_phase = "auto_intake"], got.f, l)}
      [] r.cycle_phase = "auto_intake" ->
            {Out([r EXCEPT !.current_action = "driving",
                           !.position = "hub",
                           !.action_timer = o[1],
                           !.cycle_phase = "auto_drive"], f, o[2]) :
                o \in Draw(UniformTicks(4, 5), 4, l)}
      [] r.cycle_phase = "auto_climb_drive" ->
            {Out([r EXCEPT !.current_action = "climbing",
                           !.is_climbing = TRUE,
                           !.action_timer = AUTO_L1_CLIMB_TIME,
                           !.cycle_phase = "auto_climb"], f, l)}
      [] r.cycle_phase = "auto_climb" ->
            {Out([r EXCEPT !.climb_level = IF o[1] THEN 1 ELSE @,
                           !.auto_climb_scored = IF o[1] THEN TRUE ELSE @,
                           !.is_climbing = FALSE,
                           !.auto_descending = TRUE,
                           !.current_action = "driving",
                           !.position = "tower",
                           !.action_timer = AUTO_L1_DESCEND_TIME,
                           !.cycle_phase = "auto_descend"], f, o[2]) :
                o \in Bernoulli(ARCHETYPE_DEFAULTS[c.archetype].climb_success[1], l)}
      [] r.cycle_phase = "auto_descend" ->
            {Out([r EXCEPT !.auto_descending = FALSE,
                           !.position = "alliance",
                           !.current_action = "idle",
                           !.cycle_phase = "idle"], f, l)}
      [] r.cycle_phase = "auto_disrupt_drive" ->
            {Out([r EXCEPT !.current_action = "pushing_fuel",
                           !.position = "neutral",
                           !.is_pushing_fuel = TRUE,
                           !.action_timer = TICK_INTERVAL,
                           !.cycle_phase = "auto_disrupting"], f, l)}
      [] r.cycle_phase = "auto_disrupting" -> tick_auto_disrupt(id, r, f, l)
      [] OTHER -> {Out(r, f, l)}

\* Robot._tick_auto
tick_auto(id, c, r, f, l) ==
    IF r.action_timer > 0 THEN
        LET r1 == [r EXCEPT !.action_timer = @ - TICK_INTERVAL]
        IN  IF r1.action_timer <= 0 THEN complete_auto_action(id, c, r1, f, l)
            ELSE {Out(r1, f, l)}
    ELSE
        CASE c.auto_action = "score_fuel" ->
                {Out(o[1], f, o[2]) : o \in tick_auto_score(c, r, l)}
          [] c.auto_action = "climb_l1" ->
                {Out(o[1], f, o[2]) : o \in tick_auto_climb(r, l)}
          [] c.auto_action = "disrupt" -> tick_auto_disrupt(id, r, f, l)
          [] OTHER -> {Out(r, f, l)}

\* Robot._apply_active_role
apply_active_role(c, r, l) ==
    CASE c.active_shift_role = "score" ->
            LET r1 == [r EXCEPT !.shift_role = "scorer",
                                !.is_defending = FALSE,
                                !.is_pushing_fuel = FALSE]
            IN  IF r1.fuel_held > 0 /\ r1.is_stockpiling
                THEN {<<dump_stockpile(r1), l>>}
                ELSE start_scoring_cycle(c, r1, l)
      [] c.active_shift_role = "defend" ->
            {<<start_defense([r EXCEPT !.shift_role = "defender",
                                       !.is_defending = TRUE,
                                       !.is_stockpiling = FALSE,
                                       !.is_pushing_fuel = FALSE]), l>>}
      [] c.active_shift_role = "score_and_defend" ->
            IF r.fuel_held > 0 /\ r.is_stockpiling
            THEN {<<dump_stockpile([r EXCEPT !.shift_role = "scorer"]), l>>}
            ELSE {<<start_defense([r EXCEPT !.shift_role = "defender",
                                            !.is_defending = TRUE]), l>>}
      [] OTHER -> {<<r, l>>}

\* fault: a shift in which the hub is inactive leaves the robot in its role
apply_inactive_role_keep(c, r, l) == {<<r, l>>}

\* Robot._apply_inactive_role
apply_inactive_role(c, r, l) ==
    CASE c.inactive_shift_role \in {"stockpile", "deny_neutral"} ->
            start_stockpile_cycle(c, [r EXCEPT !.shift_role = "stockpiler",
                                               !.is_stockpiling = TRUE,
                                               !.is_defending = FALSE,
                                               !.is_pushing_fuel = FALSE], l)
      [] c.inactive_shift_role = "defend" ->
            {<<start_defense([r EXCEPT !.shift_role = "defender",
                                       !.is_defending = TRUE,
                                       !.is_stockpiling = FALSE,
                                       !.is_pushing_fuel = FALSE]), l>>}
      [] c.inactive_shift_role = "push_fuel" ->
            {<<start_push_cycle([r EXCEPT !.shift_role = "pusher",
                                          !.is_pushing_fuel = TRUE,
                                          !.is_stockpiling = FALSE,
                                          !.is_defending = FALSE]), l>>}
      [] OTHER -> {<<r, l>>}

\* Robot.on_shift_change
on_shift_change(c, r, hub_active, l) ==
    {<<[o[1] EXCEPT !.defense_foul_checked_this_shift = FALSE], o[2]>> :
        o \in IF hub_active THEN apply_active_role(c, r, l)
              ELSE apply_inactive_role(c, r, l)}

\* Robot._is_hub_active
is_hub_active(id, ms) ==
    IF AllianceOf(id) = "red" THEN ms.red_hub_active ELSE ms.blue_hub_active

\* Robot._detect_shift_change
detect_shift_change(id, c, r, ms, l) ==
    IF ms.current_phase # r.current_shift_phase THEN
        LET r1 == [r EXCEPT !.current_shift_phase = ms.current_phase]
        IN  IF ms.current_phase \in Shifts
            THEN on_shift_change(c, r1, is_hub_active(id, ms), l)
            ELSE IF ms.current_phase = "endgame"
            THEN on_shift_change(c, r1, TRUE, l)
            ELSE {<<r1, l>>}
    ELSE {<<r, l>>}

\* the phase-specific part of Robot.tick
tick_phase(id, c, r, ms, f, l) ==
    CASE ms.current_phase = "auto" -> tick_auto(id, c, r, f, l)
      [] ms.current_phase = "transition" -> {Out(tick_transition(r), f, l)}
      [] ms.current_phase = "endgame" -> tick_endgame(id, c, r, ms, f, l)
      [] OTHER -> tick_teleop_shift(id, c, r, f, l)

\* Robot.tick: one-time failure check, shift-change detection, phase handler
robot_tick(id, c, r, ms, f, l) ==
    LET checked == IF ~r.failures_checked
                   THEN {<<[o[1] EXCEPT !.failures_checked = TRUE], o[2]>> :
                            o \in check_failures(c, r, l)}
                   ELSE {<<r, l>>}
        shifted == UNION {detect_shift_change(id, c, a[1], ms, a[2]) : a \in checked}
    IN  UNION {tick_phase(id, c, b[1], ms, f, b[2]) : b \in shifted}

\* Robot.is_turret
is_turret(r) == r.effective_shooter = "single_turret" /\ r.turret_status = "nominal"

\* Robot.apply_defense_penalty; cycle_hit in percent, accuracy_hit in thousandths
apply_defense_penalty(r, cycle_hit, accuracy_hit) ==
    [r EXCEPT !.cycle_time_mean = (@ * (100 + cycle_hit)) \div 100,
              !.accuracy = Max(0, @ - accuracy_hit)]

\* Robot.reset_defense_penalty
reset_defense_penalty(c, r) ==
    [r EXCEPT !.cycle_time_mean = ARCHETYPE_DEFAULTS[c.archetype].cycle_time_mean,
              !.accuracy =
                  IF r.turret_status = "stuck"
                  THEN Max(0, ARCHETYPE_DEFAULTS[c.archetype].accuracy
                              - TURRET_STUCK_ACCURACY_PENALTY)
                  ELSE ARCHETYPE_DEFAULTS[c.archetype].accuracy]

-----------------------------------------------------------------------------
(* match_engine.py: MatchEngine *)

DEFENSE_CYCLE_HIT_TURRET == 35
DEFENSE_CYCLE_HIT_FIXED == 50
DEFENSE_ACCURACY_HIT_TURRET == 80
DEFENSE_ACCURACY_HIT_FIXED == 200

\* MatchState as built by MatchEngine.__init__
MatchStateInit ==
    [time_remaining |-> TOTAL_MATCH_DURATION,
     current_phase |-> "auto",
     red_hub_active |-> TRUE,
     blue_hub_active |-> TRUE,
     red_score |-> 0,
     blue_score |-> 0,
     red_fuel_scored |-> 0,
     blue_fuel_scored |-> 0,
     red_tower_points |-> 0,
     blue_tower_points |-> 0,
     red_penalties |-> 0,
     blue_penalties |-> 0]

\* the accumulators MatchEngine.__init__ sets on the engine itself;
\* auto_winner "unset" stands for the attribute not existing yet
EngineInit ==
    [red_fuel_scored |-> 0,
     blue_fuel_scored |-> 0,
     red_tower_points |-> 0,
     blue_tower_points |-> 0,
     red_penalty_points |-> 0,
     blue_penalty_points |-> 0,
     phase_scores |-> << >>,
     red_hp_timer |-> 0,
     blue_hp_timer |-> 0,
     defense_applied |-> [id \in RobotIds |-> FALSE],
     red_auto_score |-> 0,
     blue_auto_score |-> 0,
     auto_winner |-> "unset",
     prev_foul_counts |-> [id \in RobotIds |-> 0]]

\* MatchEngine._distribute_preload, for the three robots of one alliance
distribute_preload(cfgs, total_preload) ==
    LET target(i) == Min(Min(cfgs[i].auto_fuel_target, AUTO_PRELOAD_MAX),
                         cfgs[i].storage_capacity)
        fuel1 == Min(target(1), total_preload)
        fuel2 == Min(target(2), total_preload - fuel1)
        fuel3 == Min(target(3), total_preload - fuel1 - fuel2)
    IN  <<fuel1, fuel2, fuel3>>

\* fault: a tie in Auto goes to blue
determine_auto_winner_tie_blue(e) ==
    [e EXCEPT !.red_auto_score = e.red_fuel_scored,
              !.blue_auto_score = e.blue_fuel_scored,
              !.auto_winner = IF e.red_fuel_scored > e.blue_fuel_scored THEN "red"
                              ELSE "blue"]

\* MatchEngine._determine_auto_winner
determine_auto_winner(e) ==
    [e EXCEPT !.red_auto_score = e.red_fuel_scored,
              !.blue_auto_score = e.blue_fuel_scored,
              !.auto_winner = IF e.red_fuel_scored > e.blue_fuel_scored THEN "red"
                              ELSE IF e.blue_fuel_scored > e.red_fuel_scored THEN "blue"
                              ELSE "red"]

\* fault: the winner's hub is the active one in shifts 1 and 3
update_hub_activation_swapped(ms, e, phase) ==
    LET winner == IF e.auto_winner = "unset" THEN "red" ELSE e.auto_winner
        winner_active == phase \in {"shift1", "shift3"}
        loser_active == ~winner_active
    IN  IF winner = "red"
        THEN [ms EXCEPT !.red_hub_active = winner_active,
                        !.blue_hub_active = loser_active]
        ELSE [ms EXCEPT !.red_hub_active = loser_active,
                        !.blue_hub_active = winner_active]

\* MatchEngine._update_hub_activation
update_hub_activation(ms, e, phase) ==
    LET winner == IF e.auto_winner = "unset" THEN "red" ELSE e.auto_winner
        winner_active == phase \in {"shift2", "shift4"}
        loser_active == ~winner_active
    IN  IF winner = "red"
        THEN [ms EXCEPT !.red_hub_active = winner_active,
                        !.blue_hub_active = loser_active]
        ELSE [ms EXCEPT !.red_hub_active = loser_active,
                        !.blue_hub_active = winner_active]

\* MatchEngine._on_phase_change: the engine and the match state after it
on_phase_change(ms, e, old_phase, new_phase) ==
    LET e1 == IF old_phase = "auto" /\ new_phase = "transition"
              THEN determine_auto_winner(e) ELSE e
        ms1 == IF new_phase \in Shifts
               THEN update_hub_activation(ms, e1, new_phase) ELSE ms
        ms2 == IF new_phase = "endgame"
               THEN [ms1 EXCEPT !.red_hub_active = TRUE, !.blue_hub_active = TRUE]
               ELSE ms1
    IN  [ms |-> ms2, e |-> e1]

\* phase_scores is a dict keyed by phase name: a sequence of
\* <<phase, red points, blue points>> in insertion order
HasPhaseKey(ps, key) == \E i \in 1..Len(ps) : ps[i][1] = key

AddPhasePoints(ps, key, alliance, points) ==
    [i \in 1..Len(ps) |->
        IF ps[i][1] = key
        THEN IF alliance = "red" THEN <<key, ps[i][2] + points, ps[i][3]>>
             ELSE <<key, ps[i][2], ps[i][3] + points>>
        ELSE ps[i]]

\* elapsed time handed to the ledger
Elapsed(ms) == TOTAL_MATCH_DURATION - ms.time_remaining

HubActive(ms, alliance) ==
    IF alliance = "red" THEN ms.red_hub_active ELSE ms.blue_hub_active

\* the credit of `hits` scored fuel to an alliance whose hub is active
\* (_resolve_shooting lines 335-352, _hp_throw lines 535-543)
CreditFuel(ms, e, alliance, hits, with_phase_scores) ==
    LET points == hits * FUEL_ACTIVE_HUB_POINTS
        ps == IF with_phase_scores /\ HasPhaseKey(e.phase_scores, ms.current_phase)
              THEN AddPhasePoints(e.phase_scores, ms.current_phase, alliance, points)
              ELSE e.phase_scores
    IN  IF alliance = "red"
        THEN [ms |-> [ms EXCEPT !.red_fuel_scored = @ + hits, !.red_score = @ + points],
              e |-> [e EXCEPT !.red_fuel_scored = @ + hits, !.phase_scores = ps]]
        ELSE [ms |-> [ms EXCEPT !.blue_fuel_scored = @ + hits, !.blue_score = @ + points],
              e |-> [e EXCEPT !.blue_fuel_scored = @ + hits, !.phase_scores = ps]]

\* fuel resolved in one tick: min(fuel_held, max(1, int(rate * 0.5 + 0.5)))
\* fault: rate * TICK_INTERVAL is truncated, not rounded
fuel_this_tick_truncated(r) == Min(r.fuel_held, Max(1, r.shoot_rate \div 20))

fuel_this_tick(r) == Min(r.fuel_held, Max(1, (r.shoot_rate + 10) \div 20))

\* numbers of hits among n Bernoulli accuracy trials that the model draws
HitChoices(accuracy, n) ==
    IF accuracy <= 0 THEN {0}
    ELSE IF accuracy >= 1000 THEN {n}
    ELSE {0, n - 1, n}

NoShots == [id \in RobotIds |-> [shots |-> 0, hits |-> 0, hub_active |-> FALSE]]

\* the body of the loop of MatchEngine._resolve_shooting for one robot;
\* S = [rs, f, ms, e, l, log]
resolve_robot_shots(id, S) ==
    LET r == S.rs[id]
        n == fuel_this_tick(r)
        alliance == AllianceOf(id)
        hub_active == HubActive(S.ms, alliance)
    IN  IF \/ r.current_action \notin {"shooting", "dumping"}
           \/ r.fuel_held <= 0
           \/ r.shoot_rate <= 0
        THEN {S}
        ELSE
            {LET hits == o[1]
                 misses == n - hits
                 f1 == fuel_shot(S.f, n)
                 f2 == fuel_scored(f1, alliance, hits, Elapsed(S.ms))
                 f3 == fuel_missed(f2, misses, Elapsed(S.ms))
                 credit == IF hits > 0 /\ hub_active
                           THEN CreditFuel(S.ms, S.e, alliance, hits, TRUE)
                           ELSE [ms |-> S.ms, e |-> S.e]
             IN  [rs |-> [S.rs EXCEPT ![id].fuel_held = @ - n],
                  f |-> f3,
                  ms |-> credit.ms,
                  e |-> credit.e,
                  l |-> o[2],
                  log |-> [S.log EXCEPT ![id] = [shots |-> n, hits |-> hits,
                                                 hub_active |-> hub_active]]] :
                o \in Draw(HitChoices(r.accuracy, n),
                           IF r.accuracy <= 0 THEN 0 ELSE n, S.l)}

\* MatchEngine._resolve_shooting: the loop over all_robots from index i on
RECURSIVE resolve_shooting(_, _)
resolve_shooting(i, S) ==
    IF i > Len(AllRobots) THEN {S}
    ELSE UNION {resolve_shooting(i + 1, S1) :
                   S1 \in resolve_robot_shots(AllRobots[i], S)}

\* MatchEngine._find_robot: the id found, or "None"
find_robot(robot_id) == IF robot_id \in RobotIds THEN robot_id ELSE "None"

\* fault: the penalty is applied in every tick in which the target is
\* defended
process_defense_every_tick(rs, cfg, e) ==
    LET defenders == {id \in RobotIds :
                         rs[id].is_defending /\ rs[id].current_action = "defending"}
        target_of(d) == IF cfg[d].defense_target = ""
                        THEN (IF AllianceOf(d) = "red" THEN "blue_0" ELSE "red_0")
                        ELSE cfg[d].defense_target
        currently_defended == {find_robot(target_of(d)) : d \in defenders} \ {"None"}
        rs1 == [id \in RobotIds |->
                   IF id \in currently_defended
                   THEN IF is_turret(rs[id])
                        THEN apply_defense_penalty(rs[id], DEFENSE_CYCLE_HIT_TURRET,
                                                   DEFENSE_ACCURACY_HIT_TURRET)
                        ELSE apply_defense_penalty(rs[id], DEFENSE_CYCLE_HIT_FIXED,
                                                   DEFENSE_ACCURACY_HIT_FIXED)
                   ELSE rs[id]]
        applied1 == [id \in RobotIds |->
                        e.defense_applied[id] \/ id \in currently_defended]
        rs2 == [id \in RobotIds |->
                   IF applied1[id] /\ id \notin currently_defended
                   THEN reset_defense_penalty(cfg[id], rs1[id])
                   ELSE rs1[id]]
        applied2 == [id \in RobotIds |->
                        applied1[id] /\ id \in currently_defended]
    IN  [rs |-> rs2, e |-> [e EXCEPT !.defense_applied = applied2]]

\* fault: a target that matches no robot falls back to the opponent's first
\* robot
process_defense_fallback(rs, cfg, e) ==
    LET defenders == {id \in RobotIds :
                         rs[id].is_defending /\ rs[id].current_action = "defending"}
        target_of(d) == IF cfg[d].defense_target \notin RobotIds
                        THEN (IF AllianceOf(d) = "red" THEN "blue_0" ELSE "red_0")
                        ELSE cfg[d].defense_target
        currently_defended == {find_robot(target_of(d)) : d \in defenders} \ {"None"}
        rs1 == [id \in RobotIds |->
                   IF id \in currently_defended /\ ~e.defense_applied[id]
                   THEN IF is_turret(rs[id])
                        THEN apply_defense_penalty(rs[id], DEFENSE_CYCLE_HIT_TURRET,
                                                   DEFENSE_ACCURACY_HIT_TURRET)
                        ELSE apply_defense_penalty(rs[id], DEFENSE_CYCLE_HIT_FIXED,
                                                   DEFENSE_ACCURACY_HIT_FIXED)
                   ELSE rs[id]]
        applied1 == [id \in RobotIds |->
                        e.defense_applied[id] \/ id \in currently_defended]
        rs2 == [id \in RobotIds |->
                   IF applied1[id] /\ id \notin currently_defended
                   THEN reset_defense_penalty(cfg[id], rs1[id])
                   ELSE rs1[id]]
        applied2 == [id \in RobotIds |->
                        applied1[id] /\ id \in currently_defended]
    IN  [rs |-> rs2, e |-> [e EXCEPT !.defense_applied = applied2]]

\* MatchEngine._process_defense: robots and _defense_applied after the call
process_defense(rs, cfg, e) ==
    LET defenders == {id \in RobotIds :
                         rs[id].is_defending /\ rs[id].current_action = "defending"}
        target_of(d) == IF cfg[d].defense_target = ""
                        THEN (IF AllianceOf(d) = "red" THEN "blue_0" ELSE "red_0")
                        ELSE cfg[d].defense_target
        currently_defended == {find_robot(target_of(d)) : d \in defenders} \ {"None"}
        rs1 == [id \in RobotIds |->
                   IF id \in currently_defended /\ ~e.defense_applied[id]
                   THEN IF is_turret(rs[id])
                        THEN apply_defense_penalty(rs[id], DEFENSE_CYCLE_HIT_TURRET,
                                                   DEFENSE_ACCURACY_HIT_TURRET)
                        ELSE apply_defense_penalty(rs[id], DEFENSE_CYCLE_HIT_FIXED,
                                                   DEFENSE_ACCURACY_HIT_FIXED)
                   ELSE rs[id]]
        applied1 == [id \in RobotIds |->
                        e.defense_applied[id] \/ id \in currently_defended]
        rs2 == [id \in RobotIds |->
                   IF applied1[id] /\ id \notin currently_defended
                   THEN reset_defense_penalty(cfg[id], rs1[id])
                   ELSE rs1[id]]
        applied2 == [id \in RobotIds |->
                        applied1[id] /\ id \in currently_defended]
    IN  [rs |-> rs2, e |-> [e EXCEPT !.defense_applied = applied2]]

\* fault: a robot whose counter rose is charged one foul, whatever the rise
process_fouls_coalesced(rs, ms, e) ==
    LET new_fouls(id) == IF rs[id].fouls_drawn_this_match > e.prev_foul_counts[id]
                         THEN 1 ELSE 0
        by_red == (new_fouls("red_0") + new_fouls("red_1") + new_fouls("red_2"))
                  * FOUL_POINTS
        by_blue == (new_fouls("blue_0") + new_fouls("blue_1") + new_fouls("blue_2"))
                   * FOUL_POINTS
    IN  [ms |-> [ms EXCEPT !.red_penalties = @ + by_red,
                           !.blue_score = @ + by_red,
                           !.blue_penalties = @ + by_blue,
                           !.red_score = @ + by_blue],
         e |-> [e EXCEPT !.blue_penalty_points = @ + by_red,
                         !.red_penalty_points = @ + by_blue,
                         !.prev_foul_counts =
                             [id \in RobotIds |->
                                 IF new_fouls(id) > 0
                                 THEN rs[id].fouls_drawn_this_match ELSE @[id]]]]

\* fault: the penalty is recorded but never added to the opponent's score
process_fouls_unscored(rs, ms, e) ==
    LET new_fouls(id) == IF rs[id].fouls_drawn_this_match > e.prev_foul_counts[id]
                         THEN rs[id].fouls_drawn_this_match - e.prev_foul_counts[id]
                         ELSE 0
        by_red == (new_fouls("red_0") + new_fouls("red_1") + new_fouls("red_2"))
                  * FOUL_POINTS
        by_blue == (new_fouls("blue_0") + new_fouls("blue_1") + new_fouls("blue_2"))
                   * FOUL_POINTS
    IN  [ms |-> [ms EXCEPT !.red_penalties = @ + by_red,
                           !.blue_penalties = @ + by_blue],
         e |-> [e EXCEPT !.blue_penalty_points = @ + by_red,
                         !.red_penalty_points = @ + by_blue,
                         !.prev_foul_counts =
                             [id \in RobotIds |->
                                 IF new_fouls(id) > 0
                                 THEN rs[id].fouls_drawn_this_match ELSE @[id]]]]

\* MatchEngine._process_fouls: every new foul is worth FOUL_POINTS to the
\* opponent
process_fouls(rs, ms, e) ==
    LET new_fouls(id) == IF rs[id].fouls_drawn_this_match > e.prev_foul_counts[id]
                         THEN rs[id].fouls_drawn_this_match - e.prev_foul_counts[id]
                         ELSE 0
        by_red == (new_fouls("red_0") + new_fouls("red_1") + new_fouls("red_2"))
                  * FOUL_POINTS
        by_blue == (new_fouls("blue_0") + new_fouls("blue_1") + new_fouls("blue_2"))
                   * FOUL_POINTS
    IN  [ms |-> [ms EXCEPT !.red_penalties = @ + by_red,
                           !.blue_score = @ + by_red,
                           !.blue_penalties = @ + by_blue,
                           !.red_score = @ + by_blue],
         e |-> [e EXCEPT !.blue_penalty_points = @ + by_red,
                         !.red_penalty_points = @ + by_blue,
                         !.prev_foul_counts =
                             [id \in RobotIds |->
                                 IF new_fouls(id) > 0
                                 THEN rs[id].fouls_drawn_this_match ELSE @[id]]]]

\* what the human players did in a tick, per alliance
NoHp == [a \in Alliances |-> [fired |-> "none", outpost_before |-> 0, hit |-> FALSE]]

\* fault: a throw that hits is credited whatever the hub's state
engine_hp_throw_ungated(S, alliance) ==
    LET f1 == hp_throw(S.f, alliance, Elapsed(S.ms))
    IN  {IF o[1] THEN
             LET credit == CreditFuel(S.ms, S.e, alliance, 1, FALSE)
             IN  [S EXCEPT !.f = fuel_scored(f1, alliance, 1, Elapsed(S.ms)),
                           !.ms = credit.ms,
                           !.e = credit.e,
                           !.l = o[2],
                           !.log[alliance].hit = TRUE]
         ELSE [S EXCEPT !.f = fuel_missed(f1, 1, Elapsed(S.ms)), !.l = o[2]] :
            o \in Draw(BOOLEAN, TRUE, S.l)}

\* MatchEngine._hp_throw; S = [rs, f, ms, e, l, log]
engine_hp_throw(S, alliance) ==
    LET f1 == hp_throw(S.f, alliance, Elapsed(S.ms))
    IN  {IF o[1] THEN
             LET credit == IF HubActive(S.ms, alliance)
                           THEN CreditFuel(S.ms, S.e, alliance, 1, FALSE)
                           ELSE [ms |-> S.ms, e |-> S.e]
             IN  [S EXCEPT !.f = fuel_scored(f1, alliance, 1, Elapsed(S.ms)),
                           !.ms = credit.ms,
                           !.e = credit.e,
                           !.l = o[2],
                           !.log[alliance].hit = TRUE]
         ELSE [S EXCEPT !.f = fuel_missed(f1, 1, Elapsed(S.ms)), !.l = o[2]] :
            o \in Draw(BOOLEAN, TRUE, S.l)}

\* fault: the robot is handed a fuel unit whatever hp_feed returned
engine_hp_feed_unchecked(S, cfg, alliance) ==
    LET members == IF alliance = "red" THEN RedRobots ELSE BlueRobots
        needy == {i \in 1..Len(members) :
                     S.rs[members[i]].fuel_held
                         < cfg[members[i]].storage_capacity}
    IN  IF needy = {} THEN S
        ELSE LET first == members[CHOOSE i \in needy : \A j \in needy : i <= j]
                 fed == hp_feed(S.f, alliance)
             IN  [S EXCEPT !.f = fed.f, !.rs[first].fuel_held = @ + 1]

\* fault: the feed goes to the first robot of the alliance, full or not
engine_hp_feed_to_first(S, cfg, alliance) ==
    LET members == IF alliance = "red" THEN RedRobots ELSE BlueRobots
        fed == hp_feed(S.f, alliance)
    IN  IF fed.ret
        THEN [S EXCEPT !.f = fed.f, !.rs[members[1]].fuel_held = @ + 1]
        ELSE [S EXCEPT !.f = fed.f]

\* MatchEngine._hp_feed: the first robot of the alliance that is not full
engine_hp_feed(S, cfg, alliance) ==
    LET members == IF alliance = "red" THEN RedRobots ELSE BlueRobots
        needy == {i \in 1..Len(members) :
                     S.rs[members[i]].fuel_held
                         < cfg[members[i]].storage_capacity}
    IN  IF needy = {} THEN S
        ELSE LET first == members[CHOOSE i \in needy : \A j \in needy : i <= j]
                 fed == hp_feed(S.f, alliance)
             IN  IF fed.ret
                 THEN [S EXCEPT !.f = fed.f, !.rs[first].fuel_held = @ + 1]
                 ELSE [S EXCEPT !.f = fed.f]

\* MatchEngine._process_hp_for_alliance; the set of outcomes and what the
\* human player did
process_hp_for_alliance(S, cfg, alliance, mode) ==
    LET timer == (IF alliance = "red" THEN S.e.red_hp_timer ELSE S.e.blue_hp_timer)
                 + TICK_INTERVAL
        throws == \/ mode = "throw"
                  \/ mode = "mixed" /\ HubActive(S.ms, alliance)
        feeds == \/ mode = "feed"
                 \/ mode = "mixed" /\ ~HubActive(S.ms, alliance)
        fired == IF throws /\ timer >= HP_THROW_INTERVAL THEN "throw"
                 ELSE IF feeds /\ timer >= HP_FEED_INTERVAL THEN "feed"
                 ELSE "none"
        timer1 == CASE fired = "throw" -> timer - HP_THROW_INTERVAL
                    [] fired = "feed" -> timer - HP_FEED_INTERVAL
                    [] OTHER -> timer
        S0 == [S EXCEPT !.log[alliance] =
                  [fired |-> fired,
                   outpost_before |-> IF alliance = "red" THEN S.f.red_outpost_fuel
                                      ELSE S.f.blue_outpost_fuel,
                   hit |-> FALSE]]
        after == CASE fired = "throw" -> engine_hp_throw(S0, alliance)
                   [] fired = "feed" -> {engine_hp_feed(S0, cfg, alliance)}
                   [] OTHER -> {S0}
    IN  {[S1 EXCEPT !.e = IF alliance = "red"
                          THEN [S1.e EXCEPT !.red_hp_timer = timer1]
                          ELSE [S1.e EXCEPT !.blue_hp_timer = timer1]] :
            S1 \in after}

\* MatchEngine._process_human_players
process_human_players(S, cfg, modes) ==
    IF S.ms.current_phase \in {"auto", "transition"} THEN {S}
    ELSE UNION {process_hp_for_alliance(S1, cfg, "blue", modes["blue"]) :
                   S1 \in process_hp_for_alliance(S, cfg, "red", modes["red"])}

\* fault: level 1 is always worth the teleop value
climb_points_no_auto(r) ==
    CASE r.climb_level = 1 -> TOWER_L1_TELEOP_POINTS
      [] r.climb_level = 2 -> TOWER_L2_POINTS
      [] r.climb_level = 3 -> TOWER_L3_POINTS
      [] OTHER -> 0

\* the tower points of one climbed robot (_resolve_tower_climbing)
climb_points(r) ==
    CASE r.climb_level = 1 /\ r.auto_climb_scored -> TOWER_L1_AUTO_POINTS
      [] r.climb_level = 1 /\ ~r.auto_climb_scored -> TOWER_L1_TELEOP_POINTS
      [] r.climb_level = 2 -> TOWER_L2_POINTS
      [] r.climb_level = 3 -> TOWER_L3_POINTS
      [] OTHER -> 0

\* MatchEngine._resolve_tower_climbing: the loop over all_robots from index
\* i on; S = [f, ms, e]
RECURSIVE resolve_tower_climbing(_, _, _)
resolve_tower_climbing(i, rs, S) ==
    IF i > Len(AllRobots) THEN S
    ELSE
        LET id == AllRobots[i]
            points == climb_points(rs[id])
        IN  IF rs[id].climb_level <= 0 THEN resolve_tower_climbing(i + 1, rs, S)
            ELSE resolve_tower_climbing(i + 1, rs,
                    [f |-> register_climb(S.f, AllianceOf(id), id),
                     ms |-> IF AllianceOf(id) = "red"
                            THEN [S.ms EXCEPT !.red_tower_points = @ + points,
                                              !.red_score = @ + points]
                            ELSE [S.ms EXCEPT !.blue_tower_points = @ + points,
                                              !.blue_score = @ + points],
                     e |-> IF AllianceOf(id) = "red"
                           THEN [S.e EXCEPT !.red_tower_points = @ + points]
                           ELSE [S.e EXCEPT !.blue_tower_points = @ + points]])

\* fault: the energized bonus needs more than the threshold
compile_result_strict(ms, e) ==
    LET winner == IF ms.red_score > ms.blue_score THEN "red"
                  ELSE IF ms.blue_score > ms.red_score THEN "blue"
                  ELSE "tie"
        B(x) == IF x THEN 1 ELSE 0
        red_energized == e.red_fuel_scored > RP_ENERGIZED_THRESHOLD
        red_supercharged == e.red_fuel_scored >= RP_SUPERCHARGED_THRESHOLD
        blue_energized == e.blue_fuel_scored > RP_ENERGIZED_THRESHOLD
        blue_supercharged == e.blue_fuel_scored >= RP_SUPERCHARGED_THRESHOLD
        red_traversal == e.red_tower_points >= RP_TRAVERSAL_THRESHOLD
        blue_traversal == e.blue_tower_points >= RP_TRAVERSAL_THRESHOLD
    IN  [red_total_score |-> ms.red_score,
         blue_total_score |-> ms.blue_score,
         red_rp |-> (IF winner = "red" THEN RP_WIN
                     ELSE IF winner = "tie" THEN RP_TIE ELSE 0)
                    + B(red_energized) + B(red_supercharged) + B(red_traversal),
         blue_rp |-> (IF winner = "blue" THEN RP_WIN
                      ELSE IF winner = "tie" THEN RP_TIE ELSE 0)
                     + B(blue_energized) + B(blue_supercharged) + B(blue_traversal),
         winner |-> winner,
         red_fuel_scored |-> e.red_fuel_scored,
         blue_fuel_scored |-> e.blue_fuel_scored,
         red_tower_points |-> e.red_tower_points,
         blue_tower_points |-> e.blue_tower_points,
         red_penalties_drawn |-> e.red_penalty_points,
         blue_penalties_drawn |-> e.blue_penalty_points,
         red_energized |-> red_energized,
         red_supercharged |-> red_supercharged,
         red_traversal |-> red_traversal,
         blue_energized |-> blue_energized,
         blue_supercharged |-> blue_supercharged,
         blue_traversal |-> blue_traversal,
         phase_scores |-> e.phase_scores]

\* MatchEngine._compile_result
compile_result(ms, e) ==
    LET winner == IF ms.red_score > ms.blue_score THEN "red"
                  ELSE IF ms.blue_score > ms.red_score THEN "blue"
                  ELSE "tie"
        B(x) == IF x THEN 1 ELSE 0
        red_energized == e.red_fuel_scored >= RP_ENERGIZED_THRESHOLD
        red_supercharged == e.red_fuel_scored >= RP_SUPERCHARGED_THRESHOLD
        blue_energized == e.blue_fuel_scored >= RP_ENERGIZED_THRESHOLD
        blue_supercharged == e.blue_fuel_scored >= RP_SUPERCHARGED_THRESHOLD
        red_traversal == e.red_tower_points >= RP_TRAVERSAL_THRESHOLD
        blue_traversal == e.blue_tower_points >= RP_TRAVERSAL_THRESHOLD
    IN  [red_total_score |-> ms.red_score,
         blue_total_score |-> ms.blue_score,
         red_rp |-> (IF winner = "red" THEN RP_WIN
                     ELSE IF winner = "tie" THEN RP_TIE ELSE 0)
                    + B(red_energized) + B(red_supercharged) + B(red_traversal),
         blue_rp |-> (IF winner = "blue" THEN RP_WIN
                      ELSE IF winner = "tie" THEN RP_TIE ELSE 0)
                     + B(blue_energized) + B(blue_supercharged) + B(blue_traversal),
         winner |-> winner,
         red_fuel_scored |-> e.red_fuel_scored,
         blue_fuel_scored |-> e.blue_fuel_scored,
         red_tower_points |-> e.red_tower_points,
         blue_tower_points |-> e.blue_tower_points,
         red_penalties_drawn |-> e.red_penalty_points,
         blue_penalties_drawn |-> e.blue_penalty_points,
         red_energized |-> red_energized,
         red_supercharged |-> red_supercharged,
         red_traversal |-> red_traversal,
         blue_energized |-> blue_energized,
         blue_supercharged |-> blue_supercharged,
         blue_traversal |-> blue_traversal,
         phase_scores |-> e.phase_scores]

-----------------------------------------------------------------------------
(* The match: MatchEngine.__init__ and MatchEngine.run() *)

\* create_alliance_config for three robots of one archetype: the preset
\* leaves every robot on score / stockpile, assign_endgame_plan hands out
\* the climb targets in `plan`, auto_plan sets the auto actions
Alliance3(archetype_name, plan, auto_plan) ==
    [i \in 1..3 |-> [create_robot_config(archetype_name)
                        EXCEPT !.climb_target = plan[i],
                               !.auto_action = auto_plan[i]]]

AllScore == <<"score_fuel", "score_fuel", "score_fuel">>

\* the matches the model runs: red and blue RobotConfigs and HP modes.
\*  1. main.py defaults: everybot x3 against everybot x3, full_offense;
\*  2. red under 1_score_2_defend (HP throws), blue with a hand-built
\*     defender that has no explicit target;
\*  3. red under surge (HP feeds) with an auto plan of disrupt / score /
\*     climb, blue under full_offense;
\*  4. red led by an elite_turret robot, which a blue defender targets by
\*     its identifier, with a kitbot_base and an everybot.
Scenarios ==
    {[red |-> Alliance3("everybot", <<3, 3, 2>>, AllScore),
      blue |-> Alliance3("everybot", <<3, 3, 2>>, AllScore),
      red_hp |-> "mixed", blue_hp |-> "mixed"],
     [red |-> [i \in 1..3 |->
                  IF i = 1 THEN Alliance3("everybot", <<3, 3, 2>>, AllScore)[i]
                  ELSE DefenderConfig(Alliance3("everybot", <<3, 3, 2>>, AllScore)[i])],
      blue |-> [i \in 1..3 |->
                  IF i < 3 THEN Alliance3("everybot", <<3, 3, 2>>, AllScore)[i]
                  ELSE [DefenderConfig(Alliance3("everybot", <<3, 3, 2>>, AllScore)[i])
                           EXCEPT !.defense_target = ""]],
      red_hp |-> "throw", blue_hp |-> "mixed"],
     [red |-> Alliance3("everybot", <<3, 3, 2>>,
                        <<"disrupt", "score_fuel", "climb_l1">>),
      blue |-> Alliance3("everybot", <<3, 3, 2>>, AllScore),
      red_hp |-> "feed", blue_hp |-> "mixed"],
     [red |-> [i \in 1..3 |->
                  IF i = 1 THEN Alliance3("elite_turret", <<3, 3, 2>>, AllScore)[i]
                  ELSE IF i = 2 THEN Alliance3("kitbot_base", <<3, 0, 2>>, AllScore)[i]
                  ELSE Alliance3("everybot", <<3, 3, 2>>, AllScore)[i]],
      blue |-> [i \in 1..3 |->
                  IF i < 3 THEN Alliance3("everybot", <<3, 3, 2>>, AllScore)[i]
                  ELSE [DefenderConfig(Alliance3("everybot", <<3, 3, 2>>, AllScore)[i])
                           EXCEPT !.defense_target = "red_0"]],
      red_hp |-> "mixed", blue_hp |-> "mixed"]}

ConfigOf(sc) ==
    [id \in RobotIds |->
        CASE id = "red_0" -> sc.red[1] [] id = "red_1" -> sc.red[2]
          [] id = "red_2" -> sc.red[3] [] id = "blue_0" -> sc.blue[1]
          [] id = "blue_1" -> sc.blue[2] [] OTHER -> sc.blue[3]]

\* the robots after MatchEngine.__init__: constructed, then preloaded
RobotsInit(sc) ==
    LET red_fuel == distribute_preload(sc.red, INITIAL_PRELOAD_FUEL)
        blue_fuel == distribute_preload(sc.blue, INITIAL_PRELOAD_FUEL)
        preload(id) ==
            CASE id = "red_0" -> red_fuel[1] [] id = "red_1" -> red_fuel[2]
              [] id = "red_2" -> red_fuel[3] [] id = "blue_0" -> blue_fuel[1]
              [] id = "blue_1" -> blue_fuel[2] [] OTHER -> blue_fuel[3]
    IN  [id \in RobotIds |->
            [RobotNew(id, ConfigOf(sc)[id]) EXCEPT !.fuel_held = preload(id)]]

At(step) == [at |-> step, idx |-> 0]

Init ==
    \E sc \in Scenarios :
        /\ config = ConfigOf(sc)
        /\ hp_mode = [a \in Alliances |-> IF a = "red" THEN sc.red_hp ELSE sc.blue_hp]
        /\ robots = RobotsInit(sc)
        /\ field = FieldManagerInit
        /\ match_state = MatchStateInit
        /\ eng = EngineInit
        /\ luck = MaxLuck
        /\ pc = At("phase")
        /\ call = [op |-> "init"]

\* fault: the loop head runs _on_phase_change but never stores the new phase
PhaseStepKeepsPhase ==
    /\ pc.at = "phase"
    /\ LET new_phase == get_phase(match_state.time_remaining)
           ch == IF new_phase # match_state.current_phase
                 THEN on_phase_change(match_state, eng,
                                      match_state.current_phase, new_phase)
                 ELSE [ms |-> match_state, e |-> eng]
       IN  /\ match_state' = ch.ms
           /\ eng' = [ch.e EXCEPT !.phase_scores =
                          IF HasPhaseKey(@, new_phase) THEN @
                          ELSE Append(@, <<new_phase, 0, 0>>)]
    /\ pc' = At("field")
    /\ call' = [op |-> "phase"]
    /\ UNCHANGED <<field, robots, config, hp_mode, luck>>

\* run(): loop head, _get_phase, _on_phase_change, the phase_scores key
PhaseStep ==
    /\ pc.at = "phase"
    /\ LET new_phase == get_phase(match_state.time_remaining)
           ch == IF new_phase # match_state.current_phase
                 THEN on_phase_change(match_state, eng,
                                      match_state.current_phase, new_phase)
                 ELSE [ms |-> match_state, e |-> eng]
       IN  /\ match_state' = [ch.ms EXCEPT !.current_phase = new_phase]
           /\ eng' = [ch.e EXCEPT !.phase_scores =
                          IF HasPhaseKey(@, new_phase) THEN @
                          ELSE Append(@, <<new_phase, 0, 0>>)]
    /\ pc' = At("field")
    /\ call' = [op |-> "phase"]
    /\ UNCHANGED <<field, robots, config, hp_mode, luck>>

\* run() step 1: self.field.tick(elapsed, all_states)
FieldTick ==
    /\ pc.at = "field"
    /\ field' = field_tick(field, Elapsed(match_state), robots)
    /\ pc' = At("hp")
    /\ call' = [op |-> "field",
                released |-> field'.neutral_fuel_available
                                 - field.neutral_fuel_available,
                neutral_before |-> field.neutral_fuel_available]
    /\ UNCHANGED <<match_state, eng, robots, config, hp_mode, luck>>

\* run() step 2: self._process_human_players(dt, elapsed)
HumanPlayers ==
    /\ pc.at = "hp"
    /\ \E S \in process_human_players(
                 [rs |-> robots, f |-> field, ms |-> match_state, e |-> eng,
                  l |-> luck, log |-> NoHp], config, hp_mode) :
          /\ robots' = S.rs
          /\ field' = S.f
          /\ match_state' = S.ms
          /\ eng' = S.e
          /\ luck' = S.l
          /\ call' = [op |-> "hp", log |-> S.log, released |-> call.released,
                      neutral_before |-> call.neutral_before]
    /\ pc' = [at |-> "robot", idx |-> 1]
    /\ UNCHANGED <<config, hp_mode>>

\* fault: the robot loop stops one robot short
RobotTickSkipsLast ==
    /\ pc.at = "robot"
    /\ LET id == AllRobots[pc.idx]
       IN  \E o \in robot_tick(id, config[id], robots[id], match_state, field, luck) :
              /\ robots' = [robots EXCEPT ![id] = o.r]
              /\ field' = o.f
              /\ luck' = o.l
              /\ call' = [op |-> "robot", id |-> id,
                          took |-> field.neutral_fuel_available
                                       - o.f.neutral_fuel_available,
                          released |-> call.released,
                          neutral_before |-> call.neutral_before]
    /\ pc' = IF pc.idx < Len(AllRobots) - 1 THEN [at |-> "robot", idx |-> pc.idx + 1]
             ELSE At("shoot")
    /\ UNCHANGED <<match_state, eng, config, hp_mode>>

\* run() step 3: robot.tick(match_state, field, dt) for the next robot of
\* all_robots
RobotTick ==
    /\ pc.at = "robot"
    /\ LET id == AllRobots[pc.idx]
       IN  \E o \in robot_tick(id, config[id], robots[id], match_state, field, luck) :
              /\ robots' = [robots EXCEPT ![id] = o.r]
              /\ field' = o.f
              /\ luck' = o.l
              /\ call' = [op |-> "robot", id |-> id,
                          took |-> field.neutral_fuel_available
                                       - o.f.neutral_fuel_available,
                          released |-> call.released,
                          neutral_before |-> call.neutral_before]
    /\ pc' = IF pc.idx < Len(AllRobots) THEN [at |-> "robot", idx |-> pc.idx + 1]
             ELSE At("shoot")
    /\ UNCHANGED <<match_state, eng, config, hp_mode>>

\* run() step 4: self._resolve_shooting(elapsed)
ResolveShooting ==
    /\ pc.at = "shoot"
    /\ \E S \in resolve_shooting(1,
                 [rs |-> robots, f |-> field, ms |-> match_state, e |-> eng,
                  l |-> luck, log |-> NoShots]) :
          /\ robots' = S.rs
          /\ field' = S.f
          /\ match_state' = S.ms
          /\ eng' = S.e
          /\ luck' = S.l
          /\ call' = [op |-> "shoot", log |-> S.log]
    /\ pc' = At("defense")
    /\ UNCHANGED <<config, hp_mode>>

\* run() step 5: self._process_defense()
ProcessDefense ==
    /\ pc.at = "defense"
    /\ LET d == process_defense(robots, config, eng)
       IN  robots' = d.rs /\ eng' = d.e
    /\ pc' = At("fouls")
    /\ call' = [op |-> "defense",
                applied |-> {id \in RobotIds : eng'.defense_applied[id]
                                               /\ ~eng.defense_applied[id]},
                reset |-> {id \in RobotIds : eng.defense_applied[id]
                                             /\ ~eng'.defense_applied[id]}]
    /\ UNCHANGED <<match_state, field, config, hp_mode, luck>>

\* run() step 6: self._process_fouls()
ProcessFouls ==
    /\ pc.at = "fouls"
    /\ LET p == process_fouls(robots, match_state, eng)
       IN  match_state' = p.ms /\ eng' = p.e
    /\ pc' = At("clock")
    /\ call' = [op |-> "fouls",
                new_fouls |-> [id \in RobotIds |->
                                  robots[id].fouls_drawn_this_match
                                      - eng.prev_foul_counts[id]]]
    /\ UNCHANGED <<field, robots, config, hp_mode, luck>>

\* fault: the loop runs on while time_remaining >= 0
AdvanceTimeLate ==
    /\ pc.at = "clock"
    /\ match_state' = [match_state EXCEPT !.time_remaining = @ - TICK_INTERVAL]
    /\ pc' = IF match_state'.time_remaining >= 0 THEN At("phase") ELSE At("climb")
    /\ call' = [op |-> "clock"]
    /\ UNCHANGED <<field, eng, robots, config, hp_mode, luck>>

\* run(): time_remaining -= dt, and the loop test
AdvanceTime ==
    /\ pc.at = "clock"
    /\ match_state' = [match_state EXCEPT !.time_remaining = @ - TICK_INTERVAL]
    /\ pc' = IF match_state'.time_remaining > 0 THEN At("phase") ELSE At("climb")
    /\ call' = [op |-> "clock"]
    /\ UNCHANGED <<field, eng, robots, config, hp_mode, luck>>

\* run(): self._resolve_tower_climbing() after the loop
ResolveTowerClimbing ==
    /\ pc.at = "climb"
    /\ LET S == resolve_tower_climbing(1, robots,
                    [f |-> field, ms |-> match_state, e |-> eng])
       IN  field' = S.f /\ match_state' = S.ms /\ eng' = S.e
    /\ pc' = At("result")
    /\ call' = [op |-> "climb"]
    /\ UNCHANGED <<robots, config, hp_mode, luck>>

\* run(): return self._compile_result()
CompileResult ==
    /\ pc.at = "result"
    /\ call' = [op |-> "result", ret |-> compile_result(match_state, eng)]
    /\ pc' = At("done")
    /\ UNCHANGED <<match_state, field, eng, robots, config, hp_mode, luck>>

Next ==
    \/ PhaseStep
    \/ FieldTick
    \/ HumanPlayers
    \/ RobotTick
    \/ ResolveShooting
    \/ ProcessDefense
    \/ ProcessFouls
    \/ AdvanceTime
    \/ ResolveTowerClimbing
    \/ CompileResult

Spec == Init /\ [][Next]_vars

-----------------------------------------------------------------------------
(* The ledger on its own: a caller that makes up to MaxCalls calls of the   *)
(* FieldManager API on a fresh FieldManager, with arguments from small     *)
(* sets.  `call` records the call and what it returned; the caller's clock  *)
(* is match_state.time_remaining.                                          *)

LedgerZones == {"neutral", "outpost", "hub"}
LedgerAmounts == {-1, 0, 1, PUSH_FUEL_PER_TRIP, INITIAL_NEUTRAL_FUEL}
LedgerCounts == {1, PUSH_FUEL_PER_TRIP}

FieldInit ==
    /\ config = ConfigOf(CHOOSE sc \in Scenarios : sc.red_hp = "mixed")
    /\ hp_mode = [a \in Alliances |-> "mixed"]
    /\ robots = RobotsInit(CHOOSE sc \in Scenarios : sc.red_hp = "mixed")
    /\ field = FieldManagerInit
    /\ match_state = MatchStateInit
    /\ eng = EngineInit
    /\ luck = 0
    /\ pc = [at |-> "ledger", idx |-> 0]
    /\ call = [op |-> "init"]

\* what every ledger call leaves alone, and the call counter
LedgerCall ==
    /\ pc.at = "ledger"
    /\ pc.idx < MaxCalls
    /\ pc' = [pc EXCEPT !.idx = @ + 1]
    /\ UNCHANGED <<eng, robots, config, hp_mode, luck>>

LedgerTryIntake ==
    /\ LedgerCall
    /\ \E alliance \in Alliances, zone \in LedgerZones, amount \in LedgerAmounts :
          LET got == try_intake(field, alliance, zone, amount)
          IN  /\ field' = got.f
              /\ call' = [op |-> "try_intake", alliance |-> alliance, zone |-> zone,
                          amount |-> amount, ret |-> got.ret]
    /\ UNCHANGED match_state

\* a robot releases fuel it holds
LedgerFuelShot ==
    /\ LedgerCall
    /\ \E count \in LedgerCounts :
          /\ field' = fuel_shot(field, count)
          /\ call' = [op |-> "fuel_shot", count |-> count]
    /\ UNCHANGED match_state

\* airborne fuel enters a hub
LedgerFuelScored ==
    /\ LedgerCall
    /\ \E alliance \in Alliances, count \in LedgerCounts :
          /\ count <= field.fuel_in_flight
          /\ field' = fuel_scored(field, alliance, count, Elapsed(match_state))
          /\ call' = [op |-> "fuel_scored", alliance |-> alliance, count |-> count]
    /\ UNCHANGED match_state

\* airborne fuel misses the hub
LedgerFuelMissed ==
    /\ LedgerCall
    /\ \E count \in LedgerCounts :
          /\ count <= field.fuel_in_flight
          /\ field' = fuel_missed(field, count, Elapsed(match_state))
          /\ call' = [op |-> "fuel_missed", count |-> count]
    /\ UNCHANGED match_state

LedgerHpThrow ==
    /\ LedgerCall
    /\ \E alliance \in Alliances :
          /\ field' = hp_throw(field, alliance, Elapsed(match_state))
          /\ call' = [op |-> "hp_throw", alliance |-> alliance]
    /\ UNCHANGED match_state

LedgerHpFeed ==
    /\ LedgerCall
    /\ \E alliance \in Alliances :
          LET fed == hp_feed(field, alliance)
          IN  /\ field' = fed.f
              /\ call' = [op |-> "hp_feed", alliance |-> alliance, ret |-> fed.ret]
    /\ UNCHANGED match_state

LedgerPushFuel ==
    /\ LedgerCall
    /\ \E from_zone \in LedgerZones, amount \in LedgerAmounts :
          LET pushed == push_fuel(field, from_zone, "alliance", amount)
          IN  /\ field' = pushed.f
              /\ call' = [op |-> "push_fuel", from_zone |-> from_zone,
                          amount |-> amount, ret |-> pushed.ret,
                          actual_moved |-> pushed.actual_moved,
                          scattered |-> pushed.scattered]
    /\ UNCHANGED match_state

\* the caller's clock moves on, by a tick or by the hub transit time, and
\* FieldManager.tick runs
LedgerTick ==
    /\ LedgerCall
    /\ \E dt \in {TICK_INTERVAL, FUEL_HUB_TRANSIT_TIME} :
          /\ Elapsed(match_state) + dt <= MaxFieldTime
          /\ match_state' = [match_state EXCEPT !.time_remaining = @ - dt]
    /\ field' = field_tick(field, Elapsed(match_state'), robots)
    /\ call' = [op |-> "tick", now |-> Elapsed(match_state'),
                released |-> field'.neutral_fuel_available
                                 - field.neutral_fuel_available,
                neutral_before |-> field.neutral_fuel_available]

FieldNext ==
    \/ LedgerTryIntake
    \/ LedgerFuelShot
    \/ LedgerFuelScored
    \/ LedgerFuelMissed
    \/ LedgerHpThrow
    \/ LedgerHpFeed
    \/ LedgerPushFuel
    \/ LedgerTick

SpecField == FieldInit /\ [][FieldNext]_vars

\* the ledger driven by a match or by the caller above
SpecLedgerAndMatch == (Init \/ FieldInit) /\ [][Next \/ FieldNext]_vars

-----------------------------------------------------------------------------
(* A caller of the tower API of FieldManager: can_climb and register_climb  *)
(* with any alliance and any robot identifier, up to MaxCalls calls.        *)

LedgerCanClimb ==
    /\ LedgerCall
    /\ \E a \in Alliances, id \in RobotIds :
          call' = [op |-> "can_climb", alliance |-> a, robot_id |-> id,
                   ret |-> can_climb(field, a, id)]
    /\ UNCHANGED <<field, match_state>>

LedgerRegisterClimb ==
    /\ LedgerCall
    /\ \E a \in Alliances, id \in RobotIds :
          /\ field' = register_climb(field, a, id)
          /\ call' = [op |-> "register_climb", alliance |-> a, robot_id |-> id,
                      was_on_tower |-> InSeq(id, IF a = "red"
                                                 THEN field.red_tower_occupants
                                                 ELSE field.blue_tower_occupants)]
    /\ UNCHANGED match_state

TowerNext ==
    \/ LedgerCanClimb
    \/ LedgerRegisterClimb

SpecTower == FieldInit /\ [][TowerNext]_vars

-----------------------------------------------------------------------------
(* _compile_result on the totals a match can end with: scores up to        *)
(* MaxResultScore, fuel-scored counts and tower points at and next to the   *)
(* ranking-point thresholds.                                                *)

MaxResultScore == 2

ResultFuelCounts ==
    {0, RP_ENERGIZED_THRESHOLD - 1, RP_ENERGIZED_THRESHOLD,
     RP_SUPERCHARGED_THRESHOLD - 1, RP_SUPERCHARGED_THRESHOLD}

ResultTowerPoints == {0, RP_TRAVERSAL_THRESHOLD - 1, RP_TRAVERSAL_THRESHOLD}

ResultInit ==
    /\ config = ConfigOf(CHOOSE sc \in Scenarios : sc.red_hp = "mixed")
    /\ hp_mode = [a \in Alliances |-> "mixed"]
    /\ robots = RobotsInit(CHOOSE sc \in Scenarios : sc.red_hp = "mixed")
    /\ field = FieldManagerInit
    /\ \E rs \in 0..MaxResultScore, bs \in 0..MaxResultScore,
          rf \in ResultFuelCounts, bf \in ResultFuelCounts,
          rt \in ResultTowerPoints, bt \in ResultTowerPoints :
          /\ match_state = [MatchStateInit EXCEPT !.time_remaining = 0,
                                                  !.current_phase = "endgame",
                                                  !.red_score = rs,
                                                  !.blue_score = bs,
                                                  !.red_tower_points = rt,
                                                  !.blue_tower_points = bt]
          /\ eng = [EngineInit EXCEPT !.red_fuel_scored = rf,
                                      !.blue_fuel_scored = bf,
                                      !.red_tower_points = rt,
                                      !.blue_tower_points = bt]
    /\ luck = 0
    /\ pc = At("result")
    /\ call = [op |-> "init"]

ResultNext == CompileResult

SpecResult == ResultInit /\ [][ResultNext]_vars

-----------------------------------------------------------------------------
(* MatchEngine.__init__ on alliances of any three archetypes: the robots    *)
(* are constructed, then each alliance's preload is distributed.            *)

Archetypes == DOMAIN ARCHETYPE_DEFAULTS

\* the homogeneous alliances the opponent is drawn from
PreloadOpponents == {"everybot", "kitbot_base", "defense_bot"}

PreloadInit ==
    /\ \E r1 \in Archetypes, r2 \in Archetypes, r3 \in Archetypes,
          b \in PreloadOpponents :
          /\ config = ConfigOf([red |-> <<create_robot_config(r1),
                                         create_robot_config(r2),
                                         create_robot_config(r3)>>,
                                blue |-> [i \in 1..3 |-> create_robot_config(b)]])
          /\ robots = [id \in RobotIds |-> RobotNew(id, config[id])]
    /\ hp_mode = [a \in Alliances |-> "mixed"]
    /\ field = FieldManagerInit
    /\ match_state = MatchStateInit
    /\ eng = EngineInit
    /\ luck = 0
    /\ pc = At("preload")
    /\ call = [op |-> "init"]

\* MatchEngine.__init__: _distribute_preload for red, then for blue
DistributePreload ==
    /\ pc.at = "preload"
    /\ robots' = RobotsInit([red |-> <<config["red_0"], config["red_1"], config["red_2"]>>,
                             blue |-> <<config["blue_0"], config["blue_1"],
                                        config["blue_2"]>>])
    /\ pc' = At("phase")
    /\ call' = [op |-> "preload"]
    /\ UNCHANGED <<match_state, field, eng, config, hp_mode, luck>>

PreloadNext == DistributePreload

SpecPreload == PreloadInit /\ [][PreloadNext]_vars

-----------------------------------------------------------------------------
(* Robot.check_failures, the once-per-match reliability rolls, on a red     *)
(* alliance led by any archetype, with enough luck for every roll of one    *)
(* robot to come out badly.                                                 *)

MaxFailureLuck == 3

FailuresInit ==
    /\ \E r1 \in Archetypes :
          /\ config = ConfigOf([red |-> <<create_robot_config(r1),
                                         create_robot_config("everybot"),
                                         create_robot_config("everybot")>>,
                                blue |-> [i \in 1..3 |->
                                             create_robot_config("everybot")]])
          /\ robots = RobotsInit([red |-> <<config["red_0"], config["red_1"],
                                            config["red_2"]>>,
                                  blue |-> <<config["blue_0"], config["blue_1"],
                                             config["blue_2"]>>])
    /\ hp_mode = [a \in Alliances |-> "mixed"]
    /\ field = FieldManagerInit
    /\ match_state = MatchStateInit
    /\ eng = EngineInit
    /\ luck = MaxFailureLuck
    /\ pc = [at |-> "failures", idx |-> 1]
    /\ call = [op |-> "init"]

\* the first tick of each robot, in the engine's order: Robot.tick calls
\* check_failures once and sets the flag
CheckFailures ==
    /\ pc.at = "failures"
    /\ LET id == AllRobots[pc.idx]
       IN  \E o \in check_failures(config[id], robots[id], luck) :
              /\ robots' = [robots EXCEPT
                               ![id] = [o[1] EXCEPT !.failures_checked = TRUE]]
              /\ luck' = o[2]
              /\ call' = [op |-> "check_failures", id |-> id]
    /\ pc' = IF pc.idx < Len(AllRobots)
             THEN [at |-> "failures", idx |-> pc.idx + 1]
             ELSE At("phase")
    /\ UNCHANGED <<match_state, field, eng, config, hp_mode>>

FailuresNext == CheckFailures

SpecFailures == FailuresInit /\ [][FailuresNext]_vars

-----------------------------------------------------------------------------
(* Robot.apply_defense_penalty and Robot.reset_defense_penalty called in    *)
(* any order on the robots of a red alliance led by any archetype.          *)

MaxPenaltyCalls == 3

\* the (cycle_hit, accuracy_hit) pairs of the calls: the two the engine
\* passes and the empty hit
PenaltyHits ==
    {<<DEFENSE_CYCLE_HIT_TURRET, DEFENSE_ACCURACY_HIT_TURRET>>,
     <<DEFENSE_CYCLE_HIT_FIXED, DEFENSE_ACCURACY_HIT_FIXED>>,
     <<0, 0>>}

PenaltyRobots == {"red_0", "red_1"}

PenaltyInit ==
    /\ \E r1 \in Archetypes :
          /\ config = ConfigOf([red |-> <<create_robot_config(r1),
                                         create_robot_config("everybot"),
                                         create_robot_config("everybot")>>,
                                blue |-> [i \in 1..3 |->
                                             create_robot_config("everybot")]])
          /\ robots = RobotsInit([red |-> <<config["red_0"], config["red_1"],
                                            config["red_2"]>>,
                                  blue |-> <<config["blue_0"], config["blue_1"],
                                             config["blue_2"]>>])
    /\ hp_mode = [a \in Alliances |-> "mixed"]
    /\ field = FieldManagerInit
    /\ match_state = MatchStateInit
    /\ eng = EngineInit
    /\ luck = 0
    /\ pc = [at |-> "penalty", idx |-> 0]
    /\ call = [op |-> "init"]

\* a call of Robot.apply_defense_penalty(cycle_hit, accuracy_hit)
PenaltyApply ==
    /\ pc.at = "penalty" /\ pc.idx < MaxPenaltyCalls
    /\ \E id \in PenaltyRobots, h \in PenaltyHits :
          /\ robots' = [robots EXCEPT
                           ![id] = apply_defense_penalty(robots[id], h[1], h[2])]
          /\ call' = [op |-> "apply_defense_penalty", id |-> id,
                      cycle_hit |-> h[1], accuracy_hit |-> h[2]]
    /\ pc' = [pc EXCEPT !.idx = @ + 1]
    /\ UNCHANGED <<match_state, field, eng, config, hp_mode, luck>>

\* a call of Robot.reset_defense_penalty()
PenaltyResetCall ==
    /\ pc.at = "penalty" /\ pc.idx < MaxPenaltyCalls
    /\ \E id \in PenaltyRobots :
          /\ robots' = [robots EXCEPT
                           ![id] = reset_defense_penalty(config[id], robots[id])]
          /\ call' = [op |-> "reset_defense_penalty", id |-> id]
    /\ pc' = [pc EXCEPT !.idx = @ + 1]
    /\ UNCHANGED <<match_state, field, eng, config, hp_mode, luck>>

PenaltyNext == PenaltyApply \/ PenaltyResetCall

SpecPenalty == PenaltyInit /\ [][PenaltyNext]_vars

-----------------------------------------------------------------------------
(* The match with every combination of shift roles: a red alliance of       *)
(* everybots that all have the same active role, inactive role and          *)
(* pre-positioning choice, against the default blue alliance, every draw    *)
(* nominal.                                                                 *)

ActiveShiftRoles == {"score", "defend", "score_and_defend"}
InactiveShiftRoles == {"stockpile", "defend", "deny_neutral", "push_fuel"}

RoleScenarios ==
    {[red |-> [i \in 1..3 |->
                  [Alliance3("everybot", <<3, 3, 2>>, AllScore)[i]
                      EXCEPT !.active_shift_role = ar,
                             !.inactive_shift_role = ir,
                             !.preposition_before_shift = pp]],
      blue |-> Alliance3("everybot", <<3, 3, 2>>, AllScore),
      red_hp |-> "mixed", blue_hp |-> "mixed"] :
        ar \in ActiveShiftRoles, ir \in InactiveShiftRoles, pp \in BOOLEAN}

RolesInit ==
    \E sc \in RoleScenarios :
        /\ config = ConfigOf(sc)
        /\ hp_mode = [a \in Alliances |-> IF a = "red" THEN sc.red_hp ELSE sc.blue_hp]
        /\ robots = RobotsInit(sc)
        /\ field = FieldManagerInit
        /\ match_state = MatchStateInit
        /\ eng = EngineInit
        /\ luck = 0
        /\ pc = At("phase")
        /\ call = [op |-> "init"]

SpecRoles == RolesInit /\ [][Next]_vars

-----------------------------------------------------------------------------
(* Properties of the match and of the ledger *)

\* the loop head of run() and the point right after the loop: the tick
\* boundaries
TickBoundary == pc.at \in {"phase", "climb"}

LedgerCounts5(f) ==
    <<f.neutral_fuel_available, f.red_outpost_fuel, f.blue_outpost_fuel,
      f.fuel_in_flight, f.fuel_in_transit>>

\* C1: fuel conservation over a whole match.  At every tick boundary of
\* run() the five ledger counts plus the fuel held and the fuel pushed by
\* the six robots add up to TOTAL_FUEL.
C1_Conservation ==
    TickBoundary => total_fuel_check(field, robots) = TOTAL_FUEL

\* C3: non-negative ledger.  In every reachable state of a match each of
\* the five ledger counts is at least 0.
C3_NonNegativeLedger ==
    \A i \in 1..5 : LedgerCounts5(field)[i] >= 0

OtherAlliance(a) == IF a = "red" THEN "blue" ELSE "red"

ScoreOf(ms, a) == IF a = "red" THEN ms.red_score ELSE ms.blue_score

FuelScoredOf(ms, a) == IF a = "red" THEN ms.red_fuel_scored ELSE ms.blue_fuel_scored

\* the human-player step just taken had alliance a throw with an empty
\* outpost
EmptyThrow(a) ==
    /\ pc.at = "hp"
    /\ call'.op = "hp"
    /\ call'.log[a].fired = "throw"
    /\ call'.log[a].outpost_before = 0

\* C4: human throw fails closed.  When a team's throw fires while its
\* outpost is empty, the team's fuel-scored count and score do not increase
\* and, the other human player doing nothing in that step, no ledger count
\* changes and no transit-queue entry is added.
C4_ThrowFailsClosed ==
    [][\A a \in Alliances :
          EmptyThrow(a) =>
              /\ ScoreOf(match_state', a) <= ScoreOf(match_state, a)
              /\ FuelScoredOf(match_state', a) <= FuelScoredOf(match_state, a)
              /\ FuelScoredOf(eng', a) <= FuelScoredOf(eng, a)
              /\ call'.log[OtherAlliance(a)].fired = "none" => field' = field]_vars

\* the step just taken is the ledger driver's call `op`
LedgerStep(op) == pc.at = "ledger" /\ pc'.idx = pc.idx + 1 /\ call'.op = op

\* index in LedgerCounts5 of the pool a zone maps to for an alliance
PoolOf(alliance, zone) ==
    IF zone = "outpost" THEN (IF alliance = "red" THEN 2 ELSE 3) ELSE 1

\* C2: fail-closed intake.  try_intake returns min(max(amount, 0),
\* available) of the pool the zone maps to (the caller's own outpost for
\* "outpost", the neutral pool otherwise), takes exactly that much out of
\* that one pool and changes nothing else of the ledger.
C2_FailClosedIntake ==
    [][LedgerStep("try_intake") =>
          LET pool == PoolOf(call'.alliance, call'.zone)
              available == LedgerCounts5(field)[pool]
              expected == Min(Max(call'.amount, 0), available)
          IN  /\ call'.ret = expected
              /\ call'.ret >= 0
              /\ call'.ret <= available
              /\ LedgerCounts5(field')[pool] = available - call'.ret
              /\ \A i \in (1..5) \ {pool} :
                    LedgerCounts5(field')[i] = LedgerCounts5(field)[i]
              /\ field'.transit_queue = field.transit_queue]_vars

\* C2 witness: an intake that asked its own outpost for more than it held
\* and got the whole pool
C2_Witness ==
    /\ pc.at = "ledger"
    /\ call.op = "try_intake"
    /\ call.zone = "outpost"
    /\ call.amount = INITIAL_NEUTRAL_FUEL
    /\ call.ret = INITIAL_OUTPOST_FUEL
    /\ call.alliance = "blue"
    /\ field.blue_outpost_fuel = 0
    /\ field.red_outpost_fuel = INITIAL_OUTPOST_FUEL

\* the hub flag of an alliance, read off the match state
HubFlag(ms, a) == IF a = "red" THEN ms.red_hub_active ELSE ms.blue_hub_active

\* the steps of a tick in which robots tick and shots are resolved
RobotsOrShots == pc.at \in {"robot", "shoot"}

\* C5: hub activity schedule.  As seen by the robots' ticks and by shot
\* resolution, in every tick of shifts 1 and 3 the Auto winner's hub is
\* inactive and the other hub active, in every tick of shifts 2 and 4 the
\* winner's hub is active and the other inactive, and in every tick of
\* Endgame both hubs are active.
C5_HubSchedule ==
    RobotsOrShots =>
        LET phase == get_phase(match_state.time_remaining)
            winner == eng.auto_winner
        IN  /\ phase \in Shifts => winner \in Alliances
            /\ phase \in {"shift1", "shift3"} =>
                  /\ ~HubFlag(match_state, winner)
                  /\ HubFlag(match_state, OtherAlliance(winner))
            /\ phase \in {"shift2", "shift4"} =>
                  /\ HubFlag(match_state, winner)
                  /\ ~HubFlag(match_state, OtherAlliance(winner))
            /\ phase = "endgame" =>
                  HubFlag(match_state, "red") /\ HubFlag(match_state, "blue")

\* C5 witness: shot resolution in shift 2 of a match that blue won in Auto
C5_Witness ==
    /\ pc.at = "shoot"
    /\ get_phase(match_state.time_remaining) = "shift2"
    /\ eng.auto_winner = "blue"
    /\ match_state.blue_hub_active
    /\ ~match_state.red_hub_active

\* C6: Auto winner.  The step that leaves Auto names as winner the team
\* with strictly more fuel scored so far (all of it in Auto ticks), red on
\* a tie; no winner is named before that step and the winner never changes
\* after it.
C6_AutoWinner ==
    [][/\ (/\ pc.at = "phase"
           /\ match_state.current_phase = "auto"
           /\ get_phase(match_state.time_remaining) # "auto")
          => /\ eng.auto_winner = "unset"
             /\ eng'.auto_winner =
                    IF match_state.blue_fuel_scored > match_state.red_fuel_scored
                    THEN "blue" ELSE "red"
       /\ eng.auto_winner # "unset" => eng'.auto_winner = eng.auto_winner
       /\ match_state'.current_phase = "auto" => eng'.auto_winner = "unset"]_vars

\* C6 witness: red won Auto on a tie and blue has scored more fuel since
C6_Witness ==
    /\ eng.auto_winner = "red"
    /\ eng.red_auto_score = eng.blue_auto_score
    /\ eng.red_auto_score > 0
    /\ match_state.blue_fuel_scored > match_state.red_fuel_scored

\* C7: the phase is derived only from the clock.  From the field tick to
\* the clock decrement of every tick, and so in the robots' ticks and in
\* shot resolution, match_state.current_phase is get_phase of the tick's
\* time_remaining.
C7_PhaseFromClock ==
    pc.at \in {"field", "hp", "robot", "shoot", "defense", "fouls", "clock"} =>
        match_state.current_phase = get_phase(match_state.time_remaining)

\* C7 witness: the last robot ticks in the first tick of shift 3
C7_Witness ==
    /\ pc = [at |-> "robot", idx |-> 6]
    /\ match_state.time_remaining = 159
    /\ match_state.current_phase = "shift3"

\* units of the entries of a transit queue that return at time t
RECURSIVE UnitsDueAt(_, _)
UnitsDueAt(q, t) ==
    IF q = << >> THEN 0
    ELSE (IF Head(q)[1] = t THEN Head(q)[2] ELSE 0) + UnitsDueAt(Tail(q), t)

\* the entries a step appended to the transit queue
Appended == SubSeq(field'.transit_queue, Len(field.transit_queue) + 1,
                   Len(field'.transit_queue))

MembersOf(a) == {id \in RobotIds : AllianceOf(id) = a}

\* sum of g[id] over a set of robot ids
RECURSIVE SumOver(_, _)
SumOver(ids, g) ==
    IF ids = {} THEN 0
    ELSE LET id == CHOOSE x \in ids : TRUE
         IN  g[id] + SumOver(ids \ {id}, g)

\* hits of alliance a in the step just taken: robot shots in shot
\* resolution, the throw in the human-player step
HitsOf(a) ==
    IF call'.op = "shoot"
    THEN SumOver(MembersOf(a), [id \in RobotIds |-> call'.log[id].hits])
    ELSE IF call'.log[a].hit THEN 1 ELSE 0

\* C8: scoring is gated by hub activity, recycling is not.  In shot
\* resolution and in the human-player step every hit goes into
\* fuel_in_transit with a queue entry returning FUEL_HUB_TRANSIT_TIME
\* later, whatever the hub flags; the team's fuel-scored counts and score
\* grow by one per hit when its hub is active and not at all otherwise.
C8_ScoringGatedRecyclingNot ==
    [][(pc.at \in {"shoot", "hp"} /\ call'.op \in {"shoot", "hp"}) =>
          LET now == Elapsed(match_state)
              hits == HitsOf("red") + HitsOf("blue")
          IN  /\ SubSeq(field'.transit_queue, 1, Len(field.transit_queue))
                    = field.transit_queue
              /\ UnitsDueAt(Appended, now + FUEL_HUB_TRANSIT_TIME) = hits
              /\ field'.fuel_in_transit >= field.fuel_in_transit + hits
              /\ \A a \in Alliances :
                    LET credit == IF HubFlag(match_state, a) THEN HitsOf(a) ELSE 0
                    IN  /\ FuelScoredOf(match_state', a)
                              = FuelScoredOf(match_state, a) + credit
                        /\ FuelScoredOf(eng', a) = FuelScoredOf(eng, a) + credit
                        /\ ScoreOf(match_state', a)
                              = ScoreOf(match_state, a) + credit]_vars

\* C8 witness: a throw from a stocked outpost hit the hub while the hub was
\* inactive; the unit is on its way back and nothing was credited
C8_Witness ==
    /\ pc = [at |-> "robot", idx |-> 1]
    /\ call.op = "hp"
    /\ call.log["red"].fired = "throw"
    /\ call.log["red"].hit
    /\ call.log["red"].outpost_before > 0
    /\ ~match_state.red_hub_active
    /\ match_state.current_phase = "shift1"
    /\ field.fuel_in_transit > 0

\* the step of run() that follows each step, and the call it makes
StepAfter(p) ==
    CASE p.at = "phase" -> {At("field")}
      [] p.at = "field" -> {At("hp")}
      [] p.at = "hp" -> {[at |-> "robot", idx |-> 1]}
      [] p.at = "robot" /\ p.idx < 6 -> {[at |-> "robot", idx |-> p.idx + 1]}
      [] p.at = "robot" /\ p.idx >= 6 -> {At("shoot")}
      [] p.at = "shoot" -> {At("defense")}
      [] p.at = "defense" -> {At("fouls")}
      [] p.at = "fouls" -> {At("clock")}
      [] p.at = "clock" -> {At("phase"), At("climb")}
      [] p.at = "climb" -> {At("result")}
      [] p.at = "result" -> {At("done")}
      [] OTHER -> {}

TickOrder == <<"red_0", "red_1", "red_2", "blue_0", "blue_1", "blue_2">>

\* a robot whose shots the engine has to resolve
Shooter(r) ==
    /\ r.current_action \in {"shooting", "dumping"}
    /\ r.fuel_held > 0
    /\ r.shoot_rate > 0

\* C9: tick ordering.  Every tick runs ledger tick, human players, the
\* robots in the order red_0 .. blue_2, shot resolution, defense, fouls
\* and the clock decrement, in that order.  Shot resolution takes fuel
\* from every shooting or dumping robot exactly once and from no other
\* robot.  When the robots tick no transit entry is overdue (what a tick
\* releases is in the neutral pool for every intake of the tick), and the
\* neutral pool grows in the ledger tick only (what is shot in a tick
\* reaches no intake of that tick).
C9_TickOrdering ==
    [][/\ pc' \in StepAfter(pc)
       /\ call'.op = pc.at
       /\ pc.at = "robot" =>
             /\ call'.id = TickOrder[pc.idx]
             /\ \A id \in RobotIds \ {call'.id} : robots'[id] = robots[id]
             /\ \A i \in 1..Len(field.transit_queue) :
                   field.transit_queue[i][1] > Elapsed(match_state)
       /\ pc.at = "shoot" =>
             \A id \in RobotIds :
                 IF Shooter(robots[id])
                 THEN /\ call'.log[id].shots >= 1
                      /\ robots'[id].fuel_held
                            = robots[id].fuel_held - call'.log[id].shots
                 ELSE /\ call'.log[id].shots = 0
                      /\ robots'[id] = robots[id]
       /\ pc.at # "field" =>
             field'.neutral_fuel_available <= field.neutral_fuel_available
       /\ pc.at \in {"shoot", "hp"} =>
             \A i \in 1..Len(Appended) : Appended[i][1] > Elapsed(match_state)]_vars

\* C9 witness: the ledger tick of this tick released fuel into the neutral
\* pool, and blue_2, the last robot to tick, took more from the pool than
\* it held before the release
C9_Witness ==
    /\ pc.at = "shoot"
    /\ call.op = "robot"
    /\ call.id = "blue_2"
    /\ call.released > 0
    /\ call.took > call.neutral_before

\* units of the entries of a transit queue whose return time is <= t
RECURSIVE UnitsDueBy(_, _)
UnitsDueBy(q, t) ==
    IF q = << >> THEN 0
    ELSE (IF Head(q)[1] <= t THEN Head(q)[2] ELSE 0) + UnitsDueBy(Tail(q), t)

RECURSIVE UnitsIn(_)
UnitsIn(q) == IF q = << >> THEN 0 ELSE Head(q)[2] + UnitsIn(Tail(q))

NotYetDue(q, t) == SelectSeq(q, LAMBDA entry : entry[1] > t)

\* the step just taken is FieldManager.tick, in a match or by the driver
TickStep ==
    \/ pc.at = "field" /\ call'.op = "field"
    \/ LedgerStep("tick")

\* misses of alliance a in the step just taken
MissesOf(a) ==
    IF call'.op = "shoot"
    THEN SumOver(MembersOf(a),
                 [id \in RobotIds |-> call'.log[id].shots - call'.log[id].hits])
    ELSE IF call'.log[a].fired = "throw" /\ ~call'.log[a].hit THEN 1 ELSE 0

\* C10: delayed return.  FieldManager.tick(now) moves into the neutral
\* pool exactly the units of the queue entries with return time <= now,
\* takes as many off fuel_in_transit and keeps the other entries and
\* counts; so an intake of 5 from an empty neutral pool gets 0 and, once a
\* tick has matured a 5-unit entry, exactly 5.  No other step removes an
\* entry.  In a match the hits of tick k are queued for k +
\* FUEL_HUB_TRANSIT_TIME and the misses for k + FUEL_MISS_RECOVERY_TIME,
\* and every entry is released by the ledger tick of exactly its return
\* time.
C10_DelayedReturn ==
    [][/\ TickStep =>
             LET now == Elapsed(match_state')
                 q == field.transit_queue
                 due == UnitsDueBy(q, now)
             IN  /\ field'.neutral_fuel_available
                       = field.neutral_fuel_available + due
                 /\ field'.fuel_in_transit = field.fuel_in_transit - due
                 /\ field'.transit_queue = NotYetDue(q, now)
                 /\ field'.red_outpost_fuel = field.red_outpost_fuel
                 /\ field'.blue_outpost_fuel = field.blue_outpost_fuel
                 /\ field'.fuel_in_flight = field.fuel_in_flight
                 /\ field.neutral_fuel_available = 0 =>
                       /\ try_intake(field, "red", "neutral",
                                     PUSH_FUEL_PER_TRIP).ret = 0
                       /\ try_intake(field', "red", "neutral",
                                     INITIAL_NEUTRAL_FUEL).ret = due
                 /\ pc.at = "field" =>
                       \A i \in 1..Len(q) : q[i][1] >= now
       /\ ~TickStep =>
             SubSeq(field'.transit_queue, 1, Len(field.transit_queue))
                 = field.transit_queue
       /\ (pc.at \in {"shoot", "hp"} /\ call'.op \in {"shoot", "hp"}) =>
             LET now == Elapsed(match_state)
                 hits == HitsOf("red") + HitsOf("blue")
                 misses == MissesOf("red") + MissesOf("blue")
             IN  /\ UnitsDueAt(Appended, now + FUEL_HUB_TRANSIT_TIME) = hits
                 /\ UnitsDueAt(Appended, now + FUEL_MISS_RECOVERY_TIME) = misses
                 /\ UnitsIn(Appended) = hits + misses]_vars

\* C10 witness: a tick found the neutral pool empty and matured a 5-unit
\* entry; exactly 5 units are available
C10_Witness ==
    /\ pc.at = "ledger"
    /\ call.op = "tick"
    /\ call.neutral_before = 0
    /\ call.released = PUSH_FUEL_PER_TRIP
    /\ field.neutral_fuel_available = PUSH_FUEL_PER_TRIP
    /\ field.transit_queue = << >>
    /\ try_intake(field, "blue", "neutral", INITIAL_NEUTRAL_FUEL).ret
           = PUSH_FUEL_PER_TRIP

\* C11: an invariant violation is fatal.  run() takes no further step from
\* a tick boundary at which the conservation assertion fails: it neither
\* continues the loop nor resolves climbs and returns a result.
C11_ViolationIsFatal ==
    [][(TickBoundary /\ ~assert_conservation(field, robots)) => UNCHANGED vars]_vars

\* the outcomes of the current step of run() in which every draw takes the
\* value the seeded streams give it (no deviation is spent)
SameDrawOutcomes ==
    CASE pc.at = "hp" ->
            {S \in process_human_players(
                       [rs |-> robots, f |-> field, ms |-> match_state, e |-> eng,
                        l |-> luck, log |-> NoHp], config, hp_mode) : S.l = luck}
      [] pc.at = "robot" ->
            {o \in robot_tick(AllRobots[pc.idx], config[AllRobots[pc.idx]],
                              robots[AllRobots[pc.idx]], match_state, field, luck) :
                o.l = luck}
      [] pc.at = "shoot" ->
            {S \in resolve_shooting(1,
                       [rs |-> robots, f |-> field, ms |-> match_state, e |-> eng,
                        l |-> luck, log |-> NoShots]) : S.l = luck}
      [] OTHER -> {vars}

Defended(id) ==
    \E d \in RobotIds :
        /\ robots[d].is_defending
        /\ robots[d].current_action = "defending"
        /\ id = (IF config[d].defense_target = ""
                 THEN (IF AllianceOf(d) = "red" THEN "blue_0" ELSE "red_0")
                 ELSE config[d].defense_target)

\* cycle-time mean and accuracy of a robot nobody defends: the archetype
\* defaults, the accuracy less the penalty of a stuck turret
BaseCycle(id) == ARCHETYPE_DEFAULTS[config[id].archetype].cycle_time_mean

BaseAccuracy(id) ==
    IF robots[id].turret_status = "stuck"
    THEN Max(0, ARCHETYPE_DEFAULTS[config[id].archetype].accuracy
                    - TURRET_STUCK_ACCURACY_PENALTY)
    ELSE ARCHETYPE_DEFAULTS[config[id].archetype].accuracy

CycleHit(id) ==
    IF robots[id].effective_shooter = "single_turret"
       /\ robots[id].turret_status = "nominal"
    THEN DEFENSE_CYCLE_HIT_TURRET ELSE DEFENSE_CYCLE_HIT_FIXED

AccuracyHit(id) ==
    IF robots[id].effective_shooter = "single_turret"
       /\ robots[id].turret_status = "nominal"
    THEN DEFENSE_ACCURACY_HIT_TURRET ELSE DEFENSE_ACCURACY_HIT_FIXED

\* the defense step just taken invoked apply_defense_penalty /
\* reset_defense_penalty on id, or left its tuning alone
PenaltyApplied(id) ==
    /\ robots'[id].cycle_time_mean
          = (robots[id].cycle_time_mean * (100 + CycleHit(id))) \div 100
    /\ robots'[id].accuracy = Max(0, robots[id].accuracy - AccuracyHit(id))

PenaltyReset(id) ==
    /\ robots'[id].cycle_time_mean = BaseCycle(id)
    /\ robots'[id].accuracy = BaseAccuracy(id)

TuningKept(id) ==
    /\ robots'[id].cycle_time_mean = robots[id].cycle_time_mean
    /\ robots'[id].accuracy = robots[id].accuracy

FoulsOf(rs, a) == SumOver(MembersOf(a), [id \in RobotIds |-> rs[id].fouls_drawn_this_match])

\* a tick has ended and no robot of the next one has acted yet
EndOfTick == pc.at \in {"clock", "phase", "field", "hp", "climb", "result", "done"}

FoulsSettled(rs, ms, e) ==
    /\ e.blue_penalty_points = FOUL_POINTS * FoulsOf(rs, "red")
    /\ e.red_penalty_points = FOUL_POINTS * FoulsOf(rs, "blue")
    /\ ms.red_penalties = FOUL_POINTS * FoulsOf(rs, "red")
    /\ ms.blue_penalties = FOUL_POINTS * FoulsOf(rs, "blue")

\* C14: foul accounting loses nothing.  At the end of every tick the
\* penalty points credited to blue are FOUL_POINTS times the sum of the
\* cumulative foul counters of the red robots, and symmetrically for red;
\* the foul step adds to each score FOUL_POINTS for every foul the opponent
\* drew since the previous foul step, two fouls of one check included, and
\* a foul step that finds no new foul adds nothing.
C14_FoulAccounting ==
    [][/\ EndOfTick => FoulsSettled(robots, match_state, eng)
       /\ EndOfTick' => FoulsSettled(robots', match_state', eng')
       /\ pc.at = "fouls" =>
             /\ match_state'.blue_score - match_state.blue_score
                   = FOUL_POINTS * (FoulsOf(robots, "red")
                                      - eng.blue_penalty_points \div FOUL_POINTS)
             /\ match_state'.red_score - match_state.red_score
                   = FOUL_POINTS * (FoulsOf(robots, "blue")
                                      - eng.red_penalty_points \div FOUL_POINTS)]_vars

\* C14 witness: a defender's counter rose by 2 in the tick whose foul step
\* has just run
C14_Witness ==
    /\ pc.at = "clock"
    /\ call.op = "fouls"
    /\ \E id \in RobotIds : call.new_fouls[id] = 2

\* the value of a final climb level; by_auto: level 1 was reached by the
\* Auto climbing routine
ClimbValue(level, by_auto) ==
    CASE level = 1 -> (IF by_auto THEN TOWER_L1_AUTO_POINTS ELSE TOWER_L1_TELEOP_POINTS)
      [] level = 2 -> TOWER_L2_POINTS
      [] level = 3 -> TOWER_L3_POINTS
      [] OTHER -> 0

ClimbTotal(a) ==
    SumOver(MembersOf(a),
            [id \in RobotIds |-> ClimbValue(robots[id].climb_level,
                                            robots[id].auto_climb_scored)])

TowerPointsOf(ms, a) == IF a = "red" THEN ms.red_tower_points ELSE ms.blue_tower_points

EngTowerPointsOf(e, a) == IF a = "red" THEN e.red_tower_points ELSE e.blue_tower_points

\* C15: end-of-match climb resolution.  The record that level 1 was scored
\* in Auto is set only by the Auto climbing routine, together with level 1;
\* any other change of a climb level is made by the Endgame routine.  Until
\* the resolution no tower point is credited; the resolution adds to each
\* team's tower points and score, once, the value of the final level of
\* each of its robots: 0 for level 0, the L2 / L3 value for levels 2 / 3,
\* and for level 1 the Auto value if the Auto routine reached it, else the
\* teleop value; a robot that scored level 1 in Auto and ends higher is
\* worth the higher level only.
C15_ClimbResolution ==
    [][/\ \A id \in RobotIds :
             /\ robots'[id].auto_climb_scored # robots[id].auto_climb_scored =>
                   /\ robots[id].cycle_phase = "auto_climb"
                   /\ robots'[id].auto_climb_scored
                   /\ robots'[id].climb_level = 1
             /\ (/\ robots'[id].climb_level # robots[id].climb_level
                 /\ robots[id].cycle_phase # "auto_climb") =>
                   /\ robots[id].cycle_phase = "climbing"
                   /\ match_state.current_phase = "endgame"
       /\ \A a \in Alliances :
             /\ pc.at \notin {"result", "done"} =>
                   TowerPointsOf(match_state, a) = 0 /\ EngTowerPointsOf(eng, a) = 0
             /\ pc.at = "climb" =>
                   /\ TowerPointsOf(match_state', a) = ClimbTotal(a)
                   /\ EngTowerPointsOf(eng', a) = ClimbTotal(a)
                   /\ ScoreOf(match_state', a) - ScoreOf(match_state, a) = ClimbTotal(a)
             /\ pc.at = "result" =>
                   /\ TowerPointsOf(match_state', a) = ClimbTotal(a)
                   /\ EngTowerPointsOf(eng', a) = ClimbTotal(a)
                   /\ call'.ret.red_tower_points = ClimbTotal("red")
                   /\ call'.ret.blue_tower_points = ClimbTotal("blue")]_vars

\* C15 witness: red_2 scored level 1 in Auto, ended the match on a higher
\* level, and the resolution has credited red's tower points
C15_Witness ==
    /\ pc.at = "result"
    /\ robots["red_2"].auto_climb_scored
    /\ robots["red_2"].climb_level > 1
    /\ match_state.red_tower_points > 0

EngFuelScoredOf(e, a) == IF a = "red" THEN e.red_fuel_scored ELSE e.blue_fuel_scored

RankingPoints(ret, a) == IF a = "red" THEN ret.red_rp ELSE ret.blue_rp

Bonuses(ret, a) ==
    IF a = "red" THEN <<ret.red_energized, ret.red_supercharged, ret.red_traversal>>
    ELSE <<ret.blue_energized, ret.blue_supercharged, ret.blue_traversal>>

CountTrue(t) == Cardinality({i \in 1..Len(t) : t[i]})

\* C16: result compilation.  The winner is red iff red's score is strictly
\* greater, blue iff blue's is strictly greater, else tie; a team's ranking
\* points are RP_WIN for the winner, RP_TIE on a tie, 0 for the loser, plus
\* one per bonus of its own; energized iff its fuel-scored count is at
\* least RP_ENERGIZED_THRESHOLD, supercharged iff at least
\* RP_SUPERCHARGED_THRESHOLD, traversal iff its tower points are at least
\* RP_TRAVERSAL_THRESHOLD, whatever the outcome and the other team's totals.
C16_ResultCompilation ==
    (pc.at = "done" /\ call.op = "result") =>
        /\ (call.ret.winner = "red") = (match_state.red_score > match_state.blue_score)
        /\ (call.ret.winner = "blue") = (match_state.blue_score > match_state.red_score)
        /\ (call.ret.winner = "tie") = (match_state.red_score = match_state.blue_score)
        /\ call.ret.winner \in {"red", "blue", "tie"}
        /\ \A a \in Alliances :
              /\ Bonuses(call.ret, a)
                    = <<EngFuelScoredOf(eng, a) >= RP_ENERGIZED_THRESHOLD,
                        EngFuelScoredOf(eng, a) >= RP_SUPERCHARGED_THRESHOLD,
                        EngTowerPointsOf(eng, a) >= RP_TRAVERSAL_THRESHOLD>>
              /\ RankingPoints(call.ret, a)
                    = (CASE call.ret.winner = a -> RP_WIN
                         [] call.ret.winner = "tie" -> RP_TIE
                         [] OTHER -> 0)
                      + CountTrue(Bonuses(call.ret, a))

\* C16 witness: a tie in which red scored exactly the energized threshold
\* and blue one unit less, red one tower point short of traversal
C16_Witness ==
    /\ pc.at = "done" /\ call.op = "result"
    /\ call.ret.winner = "tie"
    /\ eng.red_fuel_scored = RP_ENERGIZED_THRESHOLD
    /\ eng.blue_fuel_scored = RP_ENERGIZED_THRESHOLD - 1
    /\ eng.red_tower_points = RP_TRAVERSAL_THRESHOLD - 1
    /\ call.ret.red_energized /\ ~call.ret.blue_energized
    /\ call.ret.red_rp = RP_TIE + 1 /\ call.ret.blue_rp = RP_TIE

TowerOf(f, a) == IF a = "red" THEN f.red_tower_occupants ELSE f.blue_tower_occupants

\* C17: tower capacity.  After any sequence of register_climb calls each
\* team's occupancy list holds at most MAX_TOWER_OCCUPANTS entries.
C17_TowerCapacity ==
    \A a \in Alliances : Len(TowerOf(field, a)) <= MAX_TOWER_OCCUPANTS

\* C18: idempotent registration.  register_climb for a robot already on the
\* team's tower leaves both occupancy lists as they were; a list never
\* holds an identifier twice.
C18_IdempotentRegistration ==
    [][/\ (call'.op = "register_climb" /\ call'.was_on_tower) =>
             /\ field'.red_tower_occupants = field.red_tower_occupants
             /\ field'.blue_tower_occupants = field.blue_tower_occupants
       /\ \A a \in Alliances :
             \A i, j \in 1..Len(TowerOf(field', a)) :
                 TowerOf(field', a)[i] = TowerOf(field', a)[j] => i = j]_vars

\* C18 witness: red_1 was registered on a red tower that already held it
\* and another robot
C18_Witness ==
    /\ call.op = "register_climb"
    /\ call.was_on_tower
    /\ call.alliance = "red" /\ call.robot_id = "red_1"
    /\ Len(field.red_tower_occupants) = 2

\* the fuel a push can take from a zone: the neutral pool, the fuller of
\* the two outposts, nothing anywhere else
SourcePool(f, zone) ==
    CASE zone = "neutral" -> f.neutral_fuel_available
      [] zone = "outpost" -> Max(f.red_outpost_fuel, f.blue_outpost_fuel)
      [] OTHER -> 0

\* C19: scatter conservation of push_fuel.  For every call
\* push_fuel(from, to, amount) the fuel moved is at most amount and at most
\* what the source pool held before the call, scattered is
\* floor(moved * PUSH_SCATTER_RATE), scattered + arrived = moved, the call
\* returns arrived, and the sum of the ledger counts is unchanged.
C19_ScatterConservation ==
    [][call'.op = "push_fuel" =>
          /\ call'.actual_moved <= Max(call'.amount, 0)
          /\ call'.actual_moved <= SourcePool(field, call'.from_zone)
          /\ call'.scattered = (call'.actual_moved * PUSH_SCATTER_RATE) \div 100
          /\ call'.scattered + call'.ret = call'.actual_moved
          /\ total_fuel_check(field', robots') = total_fuel_check(field, robots)]_vars

OutpostOf(f, a) == IF a = "red" THEN f.red_outpost_fuel ELSE f.blue_outpost_fuel

\* what the human-player step just taken added to the fuel a robot holds
FedTo(id) == robots'[id].fuel_held - robots[id].fuel_held

\* alliance a has a robot that is not full
HasNeedy(a) ==
    \E id \in MembersOf(a) : robots[id].fuel_held < config[id].storage_capacity

\* C20: human feed fails closed.  In a human-player step in which a team
\* feeds, either the team's outpost count falls by exactly 1 and exactly one
\* of its robots holds exactly 1 more, or the outpost count and the
\* fuel_held of each of its robots stay as they were; with an empty outpost
\* it is the latter, and if the other team's human player did nothing then
\* no robot's fuel_held and no ledger count changes at all.
C20_FeedFailsClosed ==
    [][\A a \in Alliances :
          (call'.op = "hp" /\ call'.log[a].fired = "feed") =>
              /\ \/ /\ OutpostOf(field', a) = OutpostOf(field, a) - 1
                    /\ \E id \in MembersOf(a) :
                          /\ FedTo(id) = 1
                          /\ \A o \in MembersOf(a) \ {id} : FedTo(o) = 0
                 \/ /\ OutpostOf(field', a) = OutpostOf(field, a)
                    /\ \A id \in MembersOf(a) : FedTo(id) = 0
              /\ OutpostOf(field, a) <= 0 =>
                    /\ OutpostOf(field', a) = OutpostOf(field, a)
                    /\ \A id \in MembersOf(a) : FedTo(id) = 0
                    /\ call'.log[OtherAlliance(a)].fired = "none" =>
                          /\ LedgerCounts5(field') = LedgerCounts5(field)
                          /\ \A id \in RobotIds : FedTo(id) = 0]_vars

\* C20 witness: red's human player has just fed with an empty outpost while
\* a red robot had room
C20_Witness ==
    /\ pc.at = "robot" /\ pc.idx = 1
    /\ call.op = "hp"
    /\ call.log["red"].fired = "feed"
    /\ call.log["red"].outpost_before = 0
    /\ HasNeedy("red")

\* the orchestrator's own steps of run(): human players, shot resolution,
\* defense and foul bookkeeping, climb resolution
OrchestratorStep == pc.at \in {"hp", "shoot", "defense", "fouls", "climb"}

\* what a robot holds, where it is and what it is doing
RobotCore(r) ==
    <<r.fuel_held, r.fuel_being_pushed, r.position, r.current_action, r.action_timer>>

\* C21: robot state is read-only for the orchestrator.  No orchestrator
\* step changes a robot's fuel_held, fuel_being_pushed, zone, behaviour
\* state or timer; these change only in the robot's own tick.
C21_RobotStateReadOnly ==
    [][OrchestratorStep =>
          \A id \in RobotIds : RobotCore(robots'[id]) = RobotCore(robots[id])]_vars

\* robot d is in the DEFENDING state with a configured target that matches
\* no robot of the match
DefendsNobody(d) ==
    /\ robots[d].is_defending
    /\ robots[d].current_action = "defending"
    /\ config[d].defense_target # ""
    /\ config[d].defense_target \notin RobotIds

StepsLeft(p) ==
    CASE p.at = "phase" -> 7 + Len(AllRobots)
      [] p.at = "field" -> 6 + Len(AllRobots)
      [] p.at = "hp" -> 5 + Len(AllRobots)
      [] p.at = "robot" -> 5 + Len(AllRobots) - p.idx
      [] p.at = "shoot" -> 4
      [] p.at = "defense" -> 3
      [] p.at = "fouls" -> 2
      [] p.at = "clock" -> 1
      [] p.at = "climb" -> 2
      [] p.at = "result" -> 1
      [] OTHER -> 0

\* the steps run() still has to take in all: falls with every step
StepsToGo(ms, p) == ms.time_remaining * (7 + Len(AllRobots)) + StepsLeft(p)

\* ticks completed so far
TicksDone(ms) == (TOTAL_MATCH_DURATION - ms.time_remaining) \div TICK_INTERVAL

\* run() has a next step to take: the step at pc has an outcome
NextStepExists ==
    CASE pc.at = "hp" ->
            process_human_players([rs |-> robots, f |-> field, ms |-> match_state,
                                   e |-> eng, l |-> luck, log |-> NoHp],
                                  config, hp_mode) # {}
      [] pc.at = "robot" ->
            /\ pc.idx \in 1..Len(AllRobots)
            /\ robot_tick(AllRobots[pc.idx], config[AllRobots[pc.idx]],
                          robots[AllRobots[pc.idx]], match_state, field, luck) # {}
      [] pc.at = "shoot" ->
            resolve_shooting(1, [rs |-> robots, f |-> field, ms |-> match_state,
                                 e |-> eng, l |-> luck, log |-> NoShots]) # {}
      [] OTHER -> StepAfter(pc) # {}

\* the clock is in range, the loop is left exactly at 0, after all the
\* ticks, and run() is not stuck
ClockInRange ==
    /\ match_state.time_remaining \in 0..TOTAL_MATCH_DURATION
    /\ (pc.at \in {"climb", "result", "done"}) = (match_state.time_remaining = 0)
    /\ pc.at \in {"climb", "result", "done"} =>
          TicksDone(match_state) = TOTAL_MATCH_DURATION \div TICK_INTERVAL
    /\ pc.at # "done" => NextStepExists

\* C23: termination.  time_remaining starts at TOTAL_MATCH_DURATION, falls
\* by exactly TICK_INTERVAL in the clock step of each tick and in no other
\* step, and is never negative; the loop is left exactly when it is 0, so
\* after TOTAL_MATCH_DURATION / TICK_INTERVAL ticks; then climbs are
\* resolved once and one result is compiled.  Every step takes run() closer
\* to its end and, whatever the robots' states, run() has a next step to
\* take until the result is compiled.
C23_Termination ==
    /\ []ClockInRange
    /\ [][/\ pc.at = "clock" =>
                match_state'.time_remaining = match_state.time_remaining - TICK_INTERVAL
          /\ pc.at # "clock" =>
                match_state'.time_remaining = match_state.time_remaining
          /\ pc' \in StepAfter(pc)
          /\ StepsToGo(match_state', pc') < StepsToGo(match_state, pc)]_vars

\* C23 witness: the clock is at 0 after 320 ticks, the climbs are resolved
\* and the result is compiled
C23_Witness ==
    /\ pc.at = "done"
    /\ call.op = "result"
    /\ match_state.time_remaining = 0
    /\ TicksDone(match_state) = TOTAL_MATCH_DURATION \div TICK_INTERVAL

\* round-half-up of rate * TICK_INTERVAL, the rate in tenths of a unit per
\* second and the tick half a second
RoundHalfUp(rate) == (rate * TICK_INTERVAL + 10) \div 20

\* C24: units resolved per tick.  Shot resolution removes from every robot
\* that is SHOOTING or DUMPING with fuel_held > 0 and a shoot rate > 0
\* exactly n = min(fuel_held, max(1, round-half-up(rate * TICK_INTERVAL)))
\* units, of which between 0 and n are hits and the others misses: every
\* unit shot in the step leaves the air in the step, as a hit or as a miss.
\* A robot in another behaviour state or with no fuel has no unit resolved.
C24_UnitsPerTick ==
    [][pc.at = "shoot" =>
          /\ \A id \in RobotIds :
                /\ Shooter(robots[id]) =>
                      LET n == Min(robots[id].fuel_held,
                                   Max(1, RoundHalfUp(robots[id].shoot_rate)))
                      IN  /\ robots'[id].fuel_held = robots[id].fuel_held - n
                          /\ call'.log[id].shots = n
                          /\ call'.log[id].hits \in 0..n
                /\ (\/ robots[id].current_action \notin {"shooting", "dumping"}
                    \/ robots[id].fuel_held = 0) =>
                      /\ robots'[id].fuel_held = robots[id].fuel_held
                      /\ call'.log[id].shots = 0
                      /\ call'.log[id].hits = 0
          /\ field'.fuel_in_flight = field.fuel_in_flight
          /\ SumCounts(Appended)
                = SumOver(RobotIds, [id \in RobotIds |-> call'.log[id].shots])]_vars

\* C24 witness: shot resolution took from a robot as many units as its rate
\* allows, fewer than it held, and one of them missed
C24_Witness ==
    /\ pc.at = "defense"
    /\ call.op = "shoot"
    /\ \E id \in RobotIds :
          /\ call.log[id].shots = RoundHalfUp(robots[id].shoot_rate)
          /\ call.log[id].shots > 1
          /\ call.log[id].hits < call.log[id].shots
          /\ robots[id].fuel_held > 0

\* the fuel the robots of alliance a hold
HeldBy(a) == SumOver(MembersOf(a), [id \in RobotIds |-> robots[id].fuel_held])

\* C25: conservation at match start.  Right after construction, before the
\* first tick, the robots of each alliance hold INITIAL_PRELOAD_FUEL units
\* in total and the conservation sum is TOTAL_FUEL.
C25_PreloadConservation ==
    (pc.at = "phase" /\ match_state.time_remaining = TOTAL_MATCH_DURATION) =>
        /\ \A a \in Alliances : HeldBy(a) = INITIAL_PRELOAD_FUEL
        /\ total_fuel_check(field, robots) = TOTAL_FUEL

\* the robot whose tick the next robot step is
Ticking == AllRobots[pc.idx]

\* the timer of a shooting or dumping robot expires in its tick
ShotTimerExpires(r) ==
    /\ r.current_action \in {"shooting", "dumping"}
    /\ r.action_timer > 0
    /\ r.action_timer <= TICK_INTERVAL

\* C26: shooting completion destroys no fuel.  When the timer of a robot
\* that is SHOOTING or DUMPING expires in its tick, the robot holds no fuel,
\* and the tick leaves the conservation sum as it was.
C26_CompletionDestroysNoFuel ==
    [][(pc.at = "robot" /\ ShotTimerExpires(robots[Ticking])) =>
          /\ robots[Ticking].fuel_held = 0
          /\ total_fuel_check(field', robots') = total_fuel_check(field, robots)]_vars

\* the jam-clear timer of robot r expires in its tick, in the phase in
\* which it jammed
JamTimerExpires(r) ==
    /\ r.current_action = "clearing_jam"
    /\ r.action_timer > 0
    /\ r.action_timer <= TICK_INTERVAL
    /\ r.current_shift_phase = match_state.current_phase

\* C27: jam recovery.  In the tick in which the jam-clear timer of a jammed
\* robot expires, within the phase of the jam, the robot enters SHOOTING
\* and still holds the fuel it held.
C27_JamRecovery ==
    [][(pc.at = "robot" /\ JamTimerExpires(robots[Ticking])) =>
          /\ robots'[Ticking].current_action = "shooting"
          /\ robots'[Ticking].fuel_held = robots[Ticking].fuel_held
          /\ robots'[Ticking].fuel_held > 0]_vars

\* robot r is on a push: a push trip of a shift or the Auto disrupt
Pushing(r) == r.cycle_phase \in {"pushing", "auto_disrupting"}

\* C28: pushing never destroys fuel.  A robot tick in which a pushing robot
\* draws fuel from the neutral pool leaves the conservation sum unchanged:
\* every unit drawn is back in a ledger pool or counted in the robot.
C28_PushingDestroysNoFuel ==
    [][(pc.at = "robot" /\ Pushing(robots[Ticking])
          /\ field'.neutral_fuel_available < field.neutral_fuel_available) =>
          total_fuel_check(field', robots') = total_fuel_check(field, robots)]_vars

\* the ticking robot is a scorer in a shift whose shift change is behind it
ScorerInShift(r) ==
    /\ match_state.current_phase \in Shifts
    /\ r.current_shift_phase = match_state.current_phase
    /\ r.shift_role = "scorer"

\* a behaviour state other than idle whose timer has run out
Expired(r) == r.current_action # "idle" /\ r.action_timer <= 0

\* C29: scoring robots make progress.  In shifts 1-4 the tick of a scorer
\* never leaves it in a behaviour state other than idle with an expired
\* timer (the completion handler gives it a new timer or makes it idle), and
\* an idle scorer that has a shooter starts a new cycle on its tick; also
\* with a broken or no-ground-pickup intake.
C29_ScorersMakeProgress ==
    [][(pc.at = "robot" /\ ScorerInShift(robots[Ticking])) =>
          /\ ~Expired(robots'[Ticking])
          /\ (/\ robots[Ticking].current_action = "idle"
              /\ robots[Ticking].action_timer <= 0
              /\ robots[Ticking].effective_shooter # "none") =>
                 (/\ robots'[Ticking].current_action # "idle"
                  /\ robots'[Ticking].action_timer > 0)]_vars

\* the Endgame climb attempt of robot id has been resolved
ClimbResolved(id) ==
    robots[id].climb_attempted_teleop /\ ~robots[id].is_climbing

\* C30: a climbed robot stays on the tower.  Once a robot's Endgame climb
\* attempt is resolved, the robot is in the tower zone and is never driving,
\* intaking, shooting or dumping, for the rest of the match.
C30_ClimbedRobotStays ==
    \A id \in RobotIds :
        ClimbResolved(id) =>
            /\ robots[id].position = "tower"
            /\ robots[id].current_action
                   \notin {"driving", "intaking", "shooting", "dumping"}

\* the degradation modes robot r is in
DegradationModes(r) ==
    {m \in {"intake", "shooter", "turret"} :
        \/ m = "intake" /\ r.intake_status \in {"broken", "degraded"}
        \/ m = "shooter" /\ r.shooter_status = "degraded"
        \/ m = "turret" /\ r.turret_status = "stuck"}

\* C31: at most one degradation mode per robot.  After the once-per-match
\* reliability rolls no robot has more than one of: intake broken or
\* degraded, shooter degraded, turret stuck.
C31_OneDegradationMode ==
    \A id \in RobotIds :
        robots[id].failures_checked =>
            Cardinality(DegradationModes(robots[id])) <= 1

\* the tuning the defense penalty acts on
Tuning(r) == <<r.cycle_time_mean, r.accuracy>>

\* C32: the defense penalty operations are idempotent.  Right after a call
\* of apply_defense_penalty, the same call once more leaves cycle-time mean
\* and accuracy as they are; likewise for reset_defense_penalty.
C32_PenaltyIdempotent ==
    /\ call.op = "apply_defense_penalty" =>
          Tuning(apply_defense_penalty(robots[call.id], call.cycle_hit,
                                       call.accuracy_hit))
              = Tuning(robots[call.id])
    /\ call.op = "reset_defense_penalty" =>
          Tuning(reset_defense_penalty(config[call.id], robots[call.id]))
              = Tuning(robots[call.id])

\* C33: fouls once per shift while defending.  A robot's foul counter rises
\* only in its own tick, in shifts 1-4, while it is in the defending state
\* and has not rolled in this shift yet; it rises by at most 2 and the roll
\* is marked as taken; the mark is cleared only by a shift change.
C33_FoulsOncePerShift ==
    [][\A id \in RobotIds :
          /\ robots'[id].fouls_drawn_this_match > robots[id].fouls_drawn_this_match =>
                /\ pc.at = "robot" /\ Ticking = id
                /\ match_state.current_phase \in Shifts
                /\ robots'[id].current_action = "defending"
                /\ robots'[id].current_shift_phase = match_state.current_phase
                /\ robots'[id].fouls_drawn_this_match
                       <= robots[id].fouls_drawn_this_match + 2
                /\ \/ ~robots[id].defense_foul_checked_this_shift
                   \/ robots[id].current_shift_phase # match_state.current_phase
                /\ robots'[id].defense_foul_checked_this_shift
          /\ robots'[id].fouls_drawn_this_match >= robots[id].fouls_drawn_this_match
          /\ (/\ robots[id].defense_foul_checked_this_shift
              /\ ~robots'[id].defense_foul_checked_this_shift) =>
                 robots'[id].current_shift_phase # robots[id].current_shift_phase]_vars

\* a defender has just drawn a foul and a tech foul in one tick of a shift
C33_Witness ==
    /\ call.op = "robot"
    /\ match_state.current_phase \in Shifts
    /\ robots[call.id].current_action = "defending"
    /\ robots[call.id].fouls_drawn_this_match = 2
    /\ robots[call.id].defense_foul_checked_this_shift
    /\ eng.prev_foul_counts[call.id] = 0

\* robot id has taken its tick of the current phase, which is a shift in
\* which its own hub is inactive
InactiveInShift(id) ==
    /\ match_state.current_phase \in Shifts
    /\ robots[id].current_shift_phase = match_state.current_phase
    /\ ~is_hub_active(id, match_state)

\* C34: no robot shoots at an inactive hub during a shift.  From the end of
\* its tick on, a robot whose hub is inactive in the current shift is not
\* shooting and not dumping, whatever its role configuration; and shot
\* resolution in a shift resolves no unit for such a robot.
C34_NoShotAtInactiveHub ==
    \A id \in RobotIds :
        InactiveInShift(id) =>
            /\ robots[id].current_action \notin {"shooting", "dumping"}
            /\ (call.op = "shoot" /\ pc.at = "defense") =>
                  (call.log[id].shots = 0 /\ call.log[id].hits = 0)

\* a robot with the push_fuel role that still holds fuel has taken its tick
\* of a later shift in which its hub is inactive and is pushing, and the
\* shots of that tick are resolved
C34_Witness ==
    /\ pc.at = "defense" /\ call.op = "shoot"
    /\ match_state.current_phase \in Shifts \ {"shift1"}
    /\ \E id \in RobotIds :
          /\ InactiveInShift(id)
          /\ robots[id].fuel_held > 0
          /\ config[id].inactive_shift_role = "push_fuel"
          /\ robots[id].current_action = "pushing_fuel"

\* the phase a tick belongs to by the configured durations, from the number
\* of ticks done before it
PhaseByDuration(done) ==
    IF done < AUTO_DURATION \div TICK_INTERVAL THEN "auto"
    ELSE IF done < (AUTO_DURATION + TRANSITION_DURATION) \div TICK_INTERVAL
    THEN "transition"
    ELSE IF done < (AUTO_DURATION + TRANSITION_DURATION + SHIFT_DURATION)
                      \div TICK_INTERVAL THEN "shift1"
    ELSE IF done < (AUTO_DURATION + TRANSITION_DURATION + 2 * SHIFT_DURATION)
                      \div TICK_INTERVAL THEN "shift2"
    ELSE IF done < (AUTO_DURATION + TRANSITION_DURATION + 3 * SHIFT_DURATION)
                      \div TICK_INTERVAL THEN "shift3"
    ELSE IF done < (AUTO_DURATION + TRANSITION_DURATION + 4 * SHIFT_DURATION)
                      \div TICK_INTERVAL THEN "shift4"
    ELSE "endgame"

\* C35: phase lengths match the configured durations.  Every tick runs in
\* the phase its number falls in: the first AUTO_DURATION / TICK_INTERVAL
\* ticks in Auto, the next TRANSITION_DURATION / TICK_INTERVAL in Transition,
\* SHIFT_DURATION / TICK_INTERVAL in each shift and the last
\* ENDGAME_DURATION / TICK_INTERVAL in Endgame.
C35_PhaseLengths ==
    pc.at \in {"field", "hp", "robot", "shoot", "defense", "fouls", "clock"} =>
        match_state.current_phase = PhaseByDuration(TicksDone(match_state))

\* C36: the transit queue agrees with the transit count.  In every
\* reachable state the counts of the transit-queue entries add up to
\* fuel_in_transit and every entry has a positive count.
C36_TransitQueueAgrees ==
    /\ SumCounts(field.transit_queue) = field.fuel_in_transit
    /\ \A i \in 1..Len(field.transit_queue) : field.transit_queue[i][2] > 0

\* the field tick has just released an entry while others stay queued, and
\* the queue holds entries of different counts
C36_Witness ==
    /\ call.op = "field" /\ call.released > 0
    /\ Len(field.transit_queue) >= 2
    /\ \E i, j \in 1..Len(field.transit_queue) :
          field.transit_queue[i][2] # field.transit_queue[j][2]

\* C37: robot load stays within capacity.  In every reachable state of a
\* match every robot holds at least 0 units and at most its storage
\* capacity.
C37_LoadWithinCapacity ==
    \A id \in RobotIds :
        /\ robots[id].fuel_held >= 0
        /\ robots[id].fuel_held <= config[id].storage_capacity

\* a human-player feed has just handed over a unit and every robot of the
\* alliance is now filled to its capacity
C37_Witness ==
    /\ call.op = "hp"
    /\ \E a \in Alliances :
          /\ call.log[a].fired = "feed"
          /\ call.log[a].outpost_before > OutpostOf(field, a)
          /\ \A id \in MembersOf(a) :
                robots[id].fuel_held = config[id].storage_capacity

\* the penalty points awarded to alliance a, as the engine counts them
AwardedTo(e, a) == IF a = "red" THEN e.red_penalty_points ELSE e.blue_penalty_points

\* the penalty points the fouls of alliance a's robots cost, as MatchState
\* counts them
PenaltiesOf(ms, a) == IF a = "red" THEN ms.red_penalties ELSE ms.blue_penalties

TotalOf(ret, a) == IF a = "red" THEN ret.red_total_score ELSE ret.blue_total_score

RetFuelOf(ret, a) == IF a = "red" THEN ret.red_fuel_scored ELSE ret.blue_fuel_scored

RetTowerOf(ret, a) == IF a = "red" THEN ret.red_tower_points ELSE ret.blue_tower_points

\* the score of every team is the sum of its three parts
ScoreDecomposed ==
    /\ (TickBoundary \/ pc.at \in {"result", "done"}) =>
          \A a \in Alliances :
              /\ ScoreOf(match_state, a)
                    = FUEL_ACTIVE_HUB_POINTS * FuelScoredOf(match_state, a)
                      + TowerPointsOf(match_state, a)
                      + PenaltiesOf(match_state, OtherAlliance(a))
              /\ ScoreOf(match_state, a)
                    = FUEL_ACTIVE_HUB_POINTS * EngFuelScoredOf(eng, a)
                      + EngTowerPointsOf(eng, a) + AwardedTo(eng, a)
    /\ (pc.at = "done" /\ call.op = "result") =>
          \A a \in Alliances :
              TotalOf(call.ret, a)
                  = FUEL_ACTIVE_HUB_POINTS * RetFuelOf(call.ret, a)
                    + RetTowerOf(call.ret, a) + AwardedTo(eng, a)

\* C38: score decomposition.  At every tick boundary and in the final
\* result each team's total score is FUEL_ACTIVE_HUB_POINTS times its
\* fuel-scored count plus its tower points plus the penalty points awarded
\* to it for the other team's fouls; a score changes only in the
\* human-player step, shot resolution, foul processing and the end-of-match
\* climb resolution.
C38_ScoreDecomposition ==
    /\ []ScoreDecomposed
    /\ [][(\E a \in Alliances :
              ScoreOf(match_state', a) # ScoreOf(match_state, a)) =>
              pc.at \in {"hp", "shoot", "fouls", "climb"}]_vars

\* the final result of a match in which red has fuel points, tower points
\* and points from a blue foul
C38_Witness ==
    /\ pc.at = "done" /\ call.op = "result"
    /\ call.ret.red_fuel_scored > 0
    /\ call.ret.red_tower_points > 0
    /\ eng.red_penalty_points > 0
    /\ call.ret.red_total_score
          = call.ret.red_fuel_scored + call.ret.red_tower_points
            + eng.red_penalty_points

PenaltiesDrawnOf(ret, a) ==
    IF a = "red" THEN ret.red_penalties_drawn ELSE ret.blue_penalties_drawn

\* C39: the penalty fields name the fouling team.  In the final result
\* red_penalties_drawn is the penalty points that the fouls of red robots
\* awarded to blue, the quantity MatchState.red_penalties holds, and
\* blue_penalties_drawn the points that the fouls of blue robots awarded to
\* red.
C39_PenaltyFieldsNameFoulingTeam ==
    (pc.at = "done" /\ call.op = "result") =>
        \A a \in Alliances :
            PenaltiesDrawnOf(call.ret, a) = PenaltiesOf(match_state, a)

\* C40: the human feed reaches only a robot at the outpost.  Whenever the
\* human-player step increases a robot's fuel_held, that robot is in the
\* outpost zone.
C40_FeedOnlyAtOutpost ==
    [][pc.at = "hp" =>
          \A id \in RobotIds :
              robots'[id].fuel_held > robots[id].fuel_held =>
                  robots[id].position = "outpost"]_vars

====
